---- MODULE Spec2Model ----
(***************************************************************************)
(* Delivery state machine of taca-ngi-pipeline.                            *)
(*                                                                         *)
(* The status store (Charon) holds one entry per sample.  Every process of *)
(* Procs is one operating-system process running                           *)
(* SampleDeliverer.deliver_sample (deliver/deliver.py).  Each database     *)
(* call of the method is one step, so that the calls of concurrent         *)
(* processes interleave the way they do against the shared store.          *)
(*                                                                         *)
(* Two specifications share the actions:                                   *)
(*   Spec       two concurrent processes, correctly configured, in an      *)
(*              environment without faults;                                *)
(*   SpecFault  one process in a faulty environment: interruption signals, *)
(*              database errors, unexpandable path templates, failing      *)
(*              bookkeeping, and writes of other processes to the entry.   *)
(***************************************************************************)
EXTENDS Naturals, Sequences, FiniteSets, TLC

VARIABLES
    db,       \* status store: sample id -> entry (the fields the code reads)
    pc,       \* position of each process inside deliver_sample
    cfg,      \* the deliverer instance of each process (sample, flags)
    exc,      \* exception being propagated by the process ("none" if none)
    ret,      \* outcome of the finished invocation (return value or error)
    log,      \* what the current invocation did so far, in order
    alone,    \* no other process wrote the sample's entry during the invocation
    chain,    \* "first_ok" after an unforced invocation left DELIVERED, "second" in its re-run
    faulty,   \* the environment of this behaviour produces faults
    nSig,     \* interruption signals delivered so far
    nDbErr,   \* database errors raised so far
    nOther,   \* writes of other processes to the entries so far
    runs,     \* invocations started so far
    proj,     \* status store: the project entry (the fields the code reads)
    ppc,      \* position of the project deliverer inside deliver_project
    pcfg,     \* the project deliverer instance (flags)
    todo,     \* samples the loop of deliver_project has still to visit
    pstatus,  \* the local variable "status" of deliver_project
    pret,     \* outcome of the finished deliver_project (return value or error)
    plog,     \* what deliver_project did so far, in order
    hard,     \* the hard-stage directory of the project exists
    gpc,      \* position of the GRUS/DDS project deliverer in its operation
    gcfg,     \* the GRUS/DDS project deliverer instance (variant, flags)
    gtodo,    \* samples a loop of the operation has still to visit
    gstaged,  \* samples the operation has put under delivery
    gval,     \* local result: delivery_status of the monitor, token of a delivery
    gtoken,   \* the delivery token the monitor polls
    gret,     \* outcome of the finished operation
    glog,     \* what the operation did so far, in order
    polls,    \* polls of the external transfer status so far
    opc,      \* position of a second GRUS deliver_project on the same project
    plist,    \* status store: delivery_projects of the project entry, as a list
    slist,    \* status store: delivery_projects of a sample entry, as a list
    apc,      \* position of each process inside add_*_name_delivery_in_charon
    acall,    \* the call of each process: the unit and the name to add
    aread,    \* the list each process fetched
    added,    \* the names whose addition was completed, per unit
    nAdd,     \* additions started so far
    stpc,     \* position inside stage_delivery
    stcfg,    \* the deliverer being staged: files_to_deliver, no_checksum
    stpat,    \* gather_files: index of the current pattern
    stfile,   \* gather_files: index of the current path of the pattern's glob
    matches,  \* gather_files: the local variable "matches"
    yielded,  \* the tuples gather_files has yielded so far
    fh,       \* the lines of the file list <sampleid>.lst
    dh,       \* the lines of the digest file <sampleid>.<hash_algorithm>
    stret,    \* outcome of the finished stage_delivery
    stlog,    \* what gather_files and stage_delivery logged or raised, in order
    epc,      \* position of a call of expand_path
    einst,    \* the deliverer instance expand_path is called on: its attributes
    epath,    \* the argument of expand_path
    eres      \* the outcome of expand_path: value or exception

\* the variables of deliver_sample and of its environment
svars == <<db, pc, cfg, exc, ret, log, alone, chain, faulty, nSig, nDbErr, nOther, runs>>

\* the variables of deliver_project
pvars == <<proj, ppc, pcfg, todo, pstatus, pret, plog>>

\* the variables of the provisioned (GRUS, DDS) project deliverers
gvars == <<hard, gpc, gcfg, gtodo, gstaged, gval, gtoken, gret, glog, polls,
          opc>>

\* svars without the sample store, pvars without the project entry
sframe == <<pc, cfg, exc, ret, log, alone, chain, faulty, nSig, nDbErr, nOther, runs>>
pframe == <<ppc, pcfg, todo, pstatus, pret, plog>>

\* the variables of the additions to delivery_projects
avars == <<plist, slist, apc, acall, aread, added, nAdd>>

\* the variables of stage_delivery and gather_files
fvars == <<stpc, stcfg, stpat, stfile, matches, yielded, fh, dh, stret, stlog>>

\* the variables of a call of expand_path
evars == <<epc, einst, epath, eres>>

xvars == <<avars, fvars, evars>>

vars == <<svars, pvars, gvars, xvars>>

(***************************************************************************)
(* Bounds.                                                                 *)
(***************************************************************************)
MaxRuns  == 2     \* invocations of deliver_sample in one behaviour
MaxSig   == 1     \* interruption signals in one behaviour
MaxDbErr == 1     \* database errors in one behaviour
MaxOther == 1     \* writes of other processes in one behaviour

Procs   == {"p1", "p2"}
Samples == {"S1"}

AnalysisStatuses == {"TO_ANALYZE", "ANALYZED"}
SampleStatuses   == {"FRESH", "STALE", "ABORTED"}
\* "UNSET": the entry has no delivery_status field
DeliveryStatuses == {"UNSET", "NOT_DELIVERED", "IN_PROGRESS", "STAGED",
                     "DELIVERED", "FAILED"}

\* delivery_token of a sample entry ("UNSET": the entry has no such field)
SampleTokens == {"UNSET", "token", "token2", "uploaded", "manually-set-up"}

Entries == [analysis_status : AnalysisStatuses,
            delivery_status : DeliveryStatuses,
            status          : SampleStatuses,
            delivery_token  : SampleTokens]

\* the entries of samples that were never handed to a provisioned delivery
PlainEntries == {e \in Entries : e.delivery_token = "UNSET"}

\* pathOK: the deliverypath template expands for this instance.  stage_only
\* skips that expansion and force makes ignore_analysis_status irrelevant
\* (line 686), so the configurations are taken up to these equivalences.
Configs == {c \in [sample : Samples, force : BOOLEAN, stage_only : BOOLEAN,
                   ignore_analysis_status : BOOLEAN, pathOK : BOOLEAN] :
               /\ c.stage_only => c.pathOK
               /\ c.force => ~c.ignore_analysis_status}

NoConfig == [sample |-> "S1", force |-> FALSE, stage_only |-> FALSE,
             ignore_analysis_status |-> FALSE, pathOK |-> TRUE]

\* the project entry: delivery_status, delivery_token, delivery_projects
\* and delivery_started ("UNSET": no field; delivery_projects is a list,
\* "empty" or "named"; delivery_started is "set" when a value is stored)
ProjectStatuses == {"UNSET", "NOT_DELIVERED", "STAGED", "DELIVERED", "FAILED"}
ProjectTokens   == {"UNSET", "NO-TOKEN", "not_under_delivery", "token",
                    "token2", "uploaded", "manually-set-up"}
ProjectNames    == {"UNSET", "empty", "named"}

NoProject == [delivery_status |-> "UNSET", delivery_token |-> "UNSET",
              delivery_projects |-> "UNSET", delivery_started |-> "UNSET"]

\* the deliverer of a provisioned delivery: variant and flags
GConfigs == [variant : {"grus", "dds"}, force : BOOLEAN,
             hard_stage_only : BOOLEAN]

NoGConfig == [variant |-> "grus", force |-> FALSE, hard_stage_only |-> FALSE]

MaxAdds == 3

MaxPatterns == 2

MaxPieces == 3

\* the depth of calls at which the interpreter stops a recursion
\* (sys.getrecursionlimit(), 1000 by default)
RecursionLimit == 8

\* the processes that add delivery names, and the names
Adders == {"a1", "a2"}
Names  == {"delivery123", "delivery456"}
NoCall == [unit |-> "project", name |-> "delivery123"]

\* a path is None or a string, taken as the sequence of its pieces: pieces
\* of plain text and placeholders.  "<projectid>" is plain text to the
\* pattern <[A-Z]+> of line 285.
Placeholders == {"<ROOTDIR>", "<ANALYSISPATH>", "<STAGINGPATH>", "<UPPNEXID>"}
Pieces == Placeholders \cup {"/x", "<projectid>", "/r", "/a", "/s", "u1"}
NonePath == [null |-> TRUE, toks |-> <<>>]
Str(toks) == [null |-> FALSE, toks |-> toks]

\* the outcome of a call: the value returned, or the exception raised
Returned(v) == [exc |-> "none", val |-> v]
Raised(e) == [exc |-> e, val |-> NonePath]

\* a deliverer instance: stagingpath is None when the configuration has
\* none (deliver.py 86), and "cyclic" when the configured value names
\* <STAGINGPATH> itself; uppnexid is an attribute only when it was given
\* or is in the database (99-106)
Instances == [stagingpath : {"None", "set", "cyclic"},
              uppnexid : {"absent", "set"}]
NoInstance == [stagingpath |-> "set", uppnexid |-> "set"]

\* no call of expand_path is running
EIdle ==
    /\ epc = "idle"
    /\ einst = NoInstance
    /\ epath = NonePath
    /\ eres = Returned(NonePath)

\* one entry of files_to_deliver: source glob, destination directory below
\* the staging path ("" is the staging path itself) and the options
Globs == {"*", "a*", "b*", "c*", "*.md5", "x*"}
Patterns == [glob : Globs, dest : {"", "sub/"}, required : BOOLEAN,
             no_digest : BOOLEAN]
NoStageConfig == [patterns |-> <<>>, no_checksum |-> FALSE]

\* stage_delivery is not running
FIdle ==
    /\ stpc = "idle"
    /\ stcfg = NoStageConfig
    /\ stpat = 1
    /\ stfile = 1
    /\ matches = 0
    /\ yielded = <<>>
    /\ fh = <<>>
    /\ dh = <<>>
    /\ stret = "none"
    /\ stlog = <<>>

\* no addition to delivery_projects is running
XIdle ==
    /\ plist = <<>>
    /\ slist = <<>>
    /\ apc = [q \in Adders |-> "idle"]
    /\ acall = [q \in Adders |-> NoCall]
    /\ aread = [q \in Adders |-> <<>>]
    /\ added = [u \in {"project", "sample"} |-> {}]
    /\ nAdd = 0
    /\ FIdle
    /\ EIdle

\* no provisioned deliverer is running
GIdle ==
    /\ hard = FALSE
    /\ gpc = "idle"
    /\ gcfg = NoGConfig
    /\ gtodo = <<>>
    /\ gstaged = <<>>
    /\ gval = "none"
    /\ gtoken = "none"
    /\ gret = "none"
    /\ glog = <<>>
    /\ polls = 0
    /\ opc = "idle"
    /\ XIdle

(***************************************************************************)
(* Deliverer getters (deliver.py 133-168): dict.get with a default.        *)
(***************************************************************************)
get_sample_status(dbentry) == dbentry.status

get_analysis_status(dbentry) == dbentry.analysis_status

get_delivery_status(dbentry) ==
    IF dbentry.delivery_status = "UNSET" THEN "NOT_DELIVERED"
    ELSE dbentry.delivery_status

\* the update replaces the whole document: the fields it does not pass are lost
update_sample_replace(store, sampleid, status) ==
    [store EXCEPT ![sampleid] =
        [analysis_status |-> "TO_ANALYZE", status |-> "FRESH",
         delivery_token |-> "UNSET", delivery_status |-> status]]

\* db.update_sample(..., delivery_status=status): a partial update of one field
update_sample(store, sampleid, status) ==
    [store EXCEPT ![sampleid].delivery_status = status]

(***************************************************************************)
(* The guards of deliver_sample, in the order the code evaluates them.     *)
(***************************************************************************)
NotAnalyzedGuard(dbentry, c) ==
    /\ get_analysis_status(dbentry) # "ANALYZED"
    /\ ~c.force /\ ~c.ignore_analysis_status

\* the already-DELIVERED guard is missing
DeliveredGuard_off(dbentry, c) == FALSE

DeliveredGuard(dbentry, c) ==
    get_delivery_status(dbentry) = "DELIVERED" /\ ~c.force

\* the IN_PROGRESS guard is missing
InProgressGuard_off(dbentry, c) == FALSE

\* the IN_PROGRESS guard also turns away a FAILED sample
InProgressGuard_failed(dbentry, c) ==
    get_delivery_status(dbentry) \in {"IN_PROGRESS", "FAILED"} /\ ~c.force

InProgressGuard(dbentry, c) ==
    get_delivery_status(dbentry) = "IN_PROGRESS" /\ ~c.force

AbortedGuard(dbentry) == get_sample_status(dbentry) = "ABORTED"

\* "if self.get_delivery_status(sampleentry):" - truth value of the string
AbortedNormalize(dbentry) == get_delivery_status(dbentry) # ""

\* force does not bypass the FRESH guard
FreshGuard_forced(dbentry, c) == get_sample_status(dbentry) = "FRESH"

FreshGuard(dbentry, c) ==
    get_sample_status(dbentry) = "FRESH" /\ ~c.force

\* status written by "except DelivererInterruptedError"
InterruptedStatus == "NOT_DELIVERED"

\* the generic handler resets the status instead of failing it
FailedStatus_reset == "NOT_DELIVERED"

\* status written by "except Exception"
FailedStatus == "FAILED"

\* handler that an exception raised inside the outer try reaches
HandlerOf(e) == IF e = "DelivererInterruptedError" THEN "h_int" ELSE "h_exc"

(***************************************************************************)
(* Helpers of the next-state relation.                                     *)
(***************************************************************************)
Has(l, e) == \E i \in 1..Len(l) : l[i] = e

Running(p) == pc[p] \notin {"idle", "done"}

Entry(p) == db[cfg[p].sample]

\* outcomes of one database call: it succeeds, or raises DatabaseError
DbOutcomes(p) ==
    IF faulty /\ nDbErr < MaxDbErr THEN {TRUE, FALSE} ELSE {TRUE}

\* a step of p that leaves the store alone
Go(p, npc, nexc, events) ==
    /\ pc'  = [pc  EXCEPT ![p] = npc]
    /\ exc' = [exc EXCEPT ![p] = nexc]
    /\ log' = [log EXCEPT ![p] = @ \o events]
    /\ UNCHANGED <<db, cfg, ret, alone, chain, faulty, nSig, nDbErr, nOther, runs>>

\* an exception e raised inside the outer try block
Raise(p, e, events) == Go(p, HandlerOf(e), e, events)

\* a database call inside the outer try block raises DatabaseError
DbErr(p) ==
    /\ pc'  = [pc  EXCEPT ![p] = HandlerOf("DatabaseError")]
    /\ exc' = [exc EXCEPT ![p] = "DatabaseError"]
    /\ log' = [log EXCEPT ![p] = Append(@, "dberr")]
    /\ nDbErr' = nDbErr + 1
    /\ UNCHANGED <<db, cfg, ret, alone, chain, faulty, nSig, nOther, runs>>

\* the bookkeeping of a successful update_delivery_status(status) by p
Wrote(p, status) ==
    /\ db'  = update_sample(db, cfg[p].sample, status)
    /\ log' = [log EXCEPT ![p] = Append(@, "w:" \o status)]
    /\ alone' = [q \in Procs |->
                   IF q # p /\ Running(q) /\ cfg[q].sample = cfg[p].sample
                   THEN FALSE ELSE alone[q]]

\* the process terminates with outcome r (a return value or an exception)
\* (wrote: its last step was a successful status write, store the result)
Finished(p, r, wrote, store) ==
    /\ pc'  = [pc  EXCEPT ![p] = "done"]
    /\ ret' = [ret EXCEPT ![p] = r]
    /\ exc' = [exc EXCEPT ![p] = "none"]
    /\ chain' = [q \in Procs |->
        IF q = p
        THEN IF chain[p] = "second" THEN "second"
             ELSE IF r = "True" /\ ~cfg[p].force
                     /\ get_delivery_status(store[cfg[p].sample]) = "DELIVERED"
                  THEN "first_ok" ELSE "none"
        ELSE IF wrote /\ cfg[q].sample = cfg[p].sample
             THEN "none" ELSE chain[q]]

\* "return value" without any further effect
Return(p, r) ==
    /\ Finished(p, r, FALSE, db)
    /\ UNCHANGED <<db, cfg, log, alone, faulty, nSig, nDbErr, nOther, runs>>

(***************************************************************************)
(* SampleDeliverer.deliver_sample, one action per step.                    *)
(***************************************************************************)
\* a process constructs a SampleDeliverer and calls deliver_sample()
Start(p) ==
    /\ pc[p] \in {"idle", "done"}
    /\ runs < MaxRuns
    \* the processes are interchangeable: p2 is the one that runs
    \* concurrently with an invocation of p1
    /\ p = "p1" \/ (Running("p1") /\ ~faulty)
    /\ \E c \in Configs :
        /\ c.pathOK \/ faulty
        /\ cfg' = [cfg EXCEPT ![p] = c]
        /\ chain' = [chain EXCEPT ![p] =
                        IF chain[p] = "first_ok" /\ c = cfg[p]
                        THEN "second" ELSE "none"]
    /\ pc' = [pc EXCEPT ![p] = "enter"]
    /\ log' = [log EXCEPT ![p] = <<>>]
    /\ ret' = [ret EXCEPT ![p] = "none"]
    /\ exc' = [exc EXCEPT ![p] = "none"]
    /\ alone' = [alone EXCEPT ![p] = TRUE]
    /\ runs' = runs + 1
    /\ UNCHANGED <<db, faulty, nSig, nDbErr, nOther>>

\* lines 679-683: the log line expands deliverypath unless stage_only
Enter(p) ==
    /\ pc[p] = "enter"
    /\ IF ~cfg[p].stage_only /\ ~cfg[p].pathOK
       THEN Raise(p, "DelivererError", <<"expand:fail">>)
       ELSE Go(p, "g_analysis", "none", <<>>)

\* lines 685-688
GuardAnalysis(p) ==
    /\ pc[p] = "g_analysis"
    /\ \E ok \in DbOutcomes(p) :
        IF ~ok THEN DbErr(p)
        ELSE IF NotAnalyzedGuard(Entry(p), cfg[p])
             THEN Return(p, "False")
             ELSE Go(p, "g_delivered", "none", <<>>)

\* lines 689-692
GuardDelivered(p) ==
    /\ pc[p] = "g_delivered"
    /\ \E ok \in DbOutcomes(p) :
        IF ~ok THEN DbErr(p)
        ELSE IF DeliveredGuard(Entry(p), cfg[p])
             THEN Return(p, "True")
             ELSE Go(p, "g_inprogress", "none", <<>>)

\* lines 693-697
GuardInProgress(p) ==
    /\ pc[p] = "g_inprogress"
    /\ \E ok \in DbOutcomes(p) :
        IF ~ok THEN DbErr(p)
        ELSE IF InProgressGuard(Entry(p), cfg[p])
             THEN Return(p, "False")
             ELSE Go(p, "g_aborted", "none", <<>>)

\* line 698
GuardAborted(p) ==
    /\ pc[p] = "g_aborted"
    /\ \E ok \in DbOutcomes(p) :
        IF ~ok THEN DbErr(p)
        ELSE IF AbortedGuard(Entry(p))
             THEN Go(p, "g_aborted_chk", "none", <<>>)
             ELSE Go(p, "g_fresh", "none", <<>>)

\* line 701: a second read of the entry decides whether to normalize
AbortedCheck(p) ==
    /\ pc[p] = "g_aborted_chk"
    /\ \E ok \in DbOutcomes(p) :
        IF ~ok THEN DbErr(p)
        ELSE IF AbortedNormalize(Entry(p))
             THEN Go(p, "w_aborted", "none", <<>>)
             ELSE Return(p, "True")

\* lines 703-705
WriteAborted(p) ==
    /\ pc[p] = "w_aborted"
    /\ \E ok \in DbOutcomes(p) :
        IF ~ok THEN DbErr(p)
        ELSE /\ Wrote(p, "NOT_DELIVERED")
             /\ Finished(p, "True", TRUE, db')
             /\ UNCHANGED <<cfg, faulty, nSig, nDbErr, nOther, runs>>

\* lines 706-709
GuardFresh(p) ==
    /\ pc[p] = "g_fresh"
    /\ \E ok \in DbOutcomes(p) :
        IF ~ok THEN DbErr(p)
        ELSE IF FreshGuard(Entry(p), cfg[p])
             THEN Return(p, "False")
             ELSE Go(p, "g_failed", "none", <<>>)

\* lines 710-711: only a log line
GuardFailed(p) ==
    /\ pc[p] = "g_failed"
    /\ \E ok \in DbOutcomes(p) :
        IF ~ok THEN DbErr(p)
        ELSE IF get_delivery_status(Entry(p)) = "FAILED"
             THEN Go(p, "w_inprogress", "none", <<"retry">>)
             ELSE Go(p, "w_inprogress", "none", <<>>)

\* a successful status write inside the try block, then on to npc
WriteThen(p, status, npc) ==
    /\ Wrote(p, status)
    /\ pc' = [pc EXCEPT ![p] = npc]
    /\ chain' = [q \in Procs |->
                   IF q # p /\ cfg[q].sample = cfg[p].sample
                   THEN "none" ELSE chain[q]]
    /\ UNCHANGED <<cfg, exc, ret, faulty, nSig, nDbErr, nOther, runs>>

\* line 719
WriteInProgress(p) ==
    /\ pc[p] = "w_inprogress"
    /\ \E ok \in DbOutcomes(p) :
        IF ~ok THEN DbErr(p) ELSE WriteThen(p, "IN_PROGRESS", "report")

\* lines 721-730: report generation; every Exception is swallowed
Report(p) ==
    /\ pc[p] = "report"
    /\ Go(p, "stage", "none", <<>>)

\* stage_only is ignored: a staged sample is always transferred
Stage_transfers(p) ==
    /\ pc[p] = "stage"
    /\ \/ Go(p, "transfer", "none", <<"stage:ok">>)
       \/ Raise(p, "DelivererError", <<"stage:fail">>)

\* lines 732-734: stage_delivery returns True or raises DelivererError
Stage(p) ==
    /\ pc[p] = "stage"
    /\ \/ Go(p, IF cfg[p].stage_only THEN "w_staged" ELSE "transfer",
             "none", <<"stage:ok">>)
       \/ Raise(p, "DelivererError", <<"stage:fail">>)

\* the result of do_delivery is not checked
Transfer_unchecked(p) ==
    /\ pc[p] = "transfer"
    /\ \/ Go(p, "w_delivered", "none", <<"xfer:ok">>)
       \/ Go(p, "w_delivered", "none", <<"xfer:fail">>)
       \/ Raise(p, "DelivererRsyncError", <<"xfer:fail">>)

\* lines 735-739 and do_delivery (755-781)
Transfer(p) ==
    /\ pc[p] = "transfer"
    /\ \/ Go(p, "w_delivered", "none", <<"xfer:ok">>)
       \/ Raise(p, "DelivererError", <<"xfer:fail">>)       \* returned False
       \/ Raise(p, "DelivererRsyncError", <<"xfer:fail">>)  \* TransferError

\* line 741
WriteDelivered(p) ==
    /\ pc[p] = "w_delivered"
    /\ \E ok \in DbOutcomes(p) :
        IF ~ok THEN DbErr(p) ELSE WriteThen(p, "DELIVERED", "ack")

\* line 743 and acknowledge_delivery (116-127): AttributeError and IOError
\* are swallowed, an unexpandable deliverystatuspath raises DelivererError
Acknowledge(p) ==
    /\ pc[p] = "ack"
    /\ \/ Go(p, "meta", "none", <<"ack">>)
       \/ faulty /\ Raise(p, "DelivererError", <<"ack:fail">>)

\* line 745
WriteStaged(p) ==
    /\ pc[p] = "w_staged"
    /\ \E ok \in DbOutcomes(p) :
        IF ~ok THEN DbErr(p) ELSE WriteThen(p, "STAGED", "meta")

\* lines 746-747 and aggregate_meta_info (299-378): parsing the digest files
\* happens outside its try blocks and may raise
AggregateMeta(p) ==
    /\ pc[p] = "meta"
    /\ \/ Return(p, "True")
       \/ faulty /\ Raise(p, "Exception", <<"meta:fail">>)

\* a status write of an exception handler, then the re-raise of exc[p];
\* a DatabaseError of the write itself replaces the exception
HandlerWrite(p, status) ==
    \E ok \in DbOutcomes(p) :
        IF ok
        THEN /\ Wrote(p, status)
             /\ Finished(p, exc[p], TRUE, db')
             /\ UNCHANGED <<cfg, faulty, nSig, nDbErr, nOther, runs>>
        ELSE /\ Finished(p, "DatabaseError", FALSE, db)
             /\ log' = [log EXCEPT ![p] = Append(@, "h:dberr")]
             /\ nDbErr' = nDbErr + 1
             /\ UNCHANGED <<db, cfg, alone, faulty, nSig, nOther, runs>>

\* the handler re-raises without resetting the status
HandleInterrupted_nowrite(p) ==
    /\ pc[p] = "h_int"
    /\ Return(p, exc[p])

\* lines 748-750
HandleInterrupted(p) ==
    /\ pc[p] = "h_int"
    /\ HandlerWrite(p, InterruptedStatus)

\* lines 751-753
HandleException(p) ==
    /\ pc[p] = "h_exc"
    /\ HandlerWrite(p, FailedStatus)

(***************************************************************************)
(* _signal_handler (41-47): SIGINT or SIGTERM raises                       *)
(* DelivererInterruptedError at the point the process has reached.         *)
(***************************************************************************)
Interrupt(p) ==
    /\ Running(p)
    /\ faulty /\ nSig < MaxSig
    /\ nSig' = nSig + 1
    /\ log' = [log EXCEPT ![p] = Append(@, IF pc[p] \in {"h_int", "h_exc"}
                                           THEN "h:sig" ELSE "sig")]
    /\ UNCHANGED <<db, cfg, alone, faulty, nDbErr, nOther, runs>>
    /\ CASE pc[p] = "report" ->
              \* caught by "except Exception" of the report block (727)
              /\ pc' = [pc EXCEPT ![p] = "stage"]
              /\ UNCHANGED <<exc, ret, chain>>
         [] pc[p] \in {"h_int", "h_exc"} ->
              \* raised inside a handler: leaves it before its write
              /\ Finished(p, "DelivererInterruptedError", FALSE, db)
         [] pc[p] = "meta" ->
              \* inside a try block of aggregate_meta_info (344-349,
              \* 358-376) it is swallowed, elsewhere it propagates
              \/ /\ Finished(p, "True", FALSE, db)
              \/ /\ pc' = [pc EXCEPT ![p] = "h_int"]
                 /\ exc' = [exc EXCEPT ![p] = "DelivererInterruptedError"]
                 /\ UNCHANGED <<ret, chain>>
         [] OTHER ->
              /\ pc' = [pc EXCEPT ![p] = HandlerOf("DelivererInterruptedError")]
              /\ exc' = [exc EXCEPT ![p] = "DelivererInterruptedError"]
              /\ UNCHANGED <<ret, chain>>

(***************************************************************************)
(* Another process (a deliverer of another kind, a monitor, an operator)   *)
(* updates the delivery_status of an entry: db.update_sample (database.py  *)
(* 69-78) called from outside deliver_sample.                              *)
(***************************************************************************)
OtherUpdate ==
    /\ faulty /\ nOther < MaxOther
    /\ \E s \in Samples : \E v \in DeliveryStatuses \ {"UNSET"} :
        /\ db' = update_sample(db, s, v)
        /\ chain' = [q \in Procs |->
                       IF cfg[q].sample = s THEN "none" ELSE chain[q]]
        /\ alone' = [q \in Procs |->
                       IF Running(q) /\ cfg[q].sample = s
                       THEN FALSE ELSE alone[q]]
    /\ nOther' = nOther + 1
    /\ UNCHANGED <<pc, cfg, exc, ret, log, faulty, nSig, nDbErr, runs>>

(***************************************************************************)
(* ProjectDeliverer.deliver_project (deliver.py 478-540): one process      *)
(* visits the samples of the project in turn; each visit is a              *)
(* deliver_sample of the process Worker, run to its end.                   *)
(***************************************************************************)
PSamples == {"S1", "S2"}

\* the order in which project_sample_entries lists the samples
PSampleOrder == <<"S1", "S2">>

Worker == "p1"

\* db.update_project(..., delivery_status=status): a partial update
update_project(entry, status) == [entry EXCEPT !.delivery_status = status]

\* all_samples_delivered (388-399)
all_samples_delivered(store) ==
    \A s \in DOMAIN store :
        get_sample_status(store[s]) # "ABORTED"
            => get_delivery_status(store[s]) = "DELIVERED"

\* "updated_status" of lines 533-535
UpdatedStatus(c) == IF c.stage_only THEN "STAGED" ELSE "DELIVERED"

\* the value of "return status"
Flag(b) == IF b THEN "True" ELSE "False"

\* a step of deliver_project that leaves the stores and the samples alone
PGo(npc, events) ==
    /\ ppc' = npc
    /\ plog' = plog \o events
    /\ UNCHANGED <<proj, pcfg, todo, pstatus, pret>>
    /\ UNCHANGED svars

\* deliver_project ends with outcome r: a return value, or an exception,
\* which "except (...): raise" (539-540) passes on without a status write
PFinish(r, events) ==
    /\ ppc' = "done"
    /\ pret' = r
    /\ plog' = plog \o events
    /\ UNCHANGED <<proj, pcfg, todo, pstatus>>
    /\ UNCHANGED svars

\* a database call of deliver_project raises DatabaseError
PDbErr ==
    /\ ppc' = "done"
    /\ pret' = "DatabaseError"
    /\ plog' = Append(plog, "dberr")
    /\ nDbErr' = nDbErr + 1
    /\ UNCHANGED <<proj, pcfg, todo, pstatus>>
    /\ UNCHANGED <<db, pc, cfg, exc, ret, log, alone, chain, faulty, nSig,
                   nOther, runs>>

\* a ProjectDeliverer is constructed and deliver_project() is called
PStart ==
    /\ ppc = "idle"
    /\ \E c \in Configs :
        /\ c.pathOK \/ faulty
        /\ ~c.ignore_analysis_status
        /\ pcfg' = c
    /\ ppc' = "p_enter"
    /\ UNCHANGED <<proj, todo, pstatus, pret, plog>>
    /\ UNCHANGED svars

\* lines 485-490: the log line expands deliverypath unless stage_only
PEnter ==
    /\ ppc = "p_enter"
    /\ IF ~pcfg.stage_only /\ ~pcfg.pathOK
       THEN PFinish("DelivererError", <<"expand:fail">>)
       ELSE PGo("p_guard", <<>>)

\* the already-DELIVERED short-circuit of the project is missing
PGuardDelivered_off ==
    /\ ppc = "p_guard"
    /\ PGo("p_list", <<>>)

\* lines 492-495
PGuardDelivered ==
    /\ ppc = "p_guard"
    /\ \E ok \in DbOutcomes(Worker) :
        IF ~ok THEN PDbErr
        ELSE IF get_delivery_status(proj) = "DELIVERED" /\ ~pcfg.force
             THEN PFinish("True", <<>>)
             ELSE PGo("p_list", <<>>)

\* lines 498-500: status = True and the list of the sample ids
PListSamples ==
    /\ ppc = "p_list"
    /\ \E ok \in DbOutcomes(Worker) :
        IF ~ok THEN PDbErr
        ELSE /\ ppc' = "p_loop"
             /\ pstatus' = TRUE
             /\ todo' = SelectSeq(PSampleOrder, LAMBDA s : s \in DOMAIN db)
             /\ UNCHANGED <<proj, pcfg, pret, plog>>
             /\ UNCHANGED svars

\* lines 499-503: the next sample gets a SampleDeliverer of its own, which
\* takes the flags from the shared configuration, and deliver_sample() is
\* called; after the last sample the loop is left
PCallSample ==
    /\ ppc = "p_loop"
    /\ IF todo = <<>>
       THEN PGo("p_misc", <<>>)
       ELSE /\ ppc' = "p_wait"
            /\ plog' = Append(plog, "sample")
            /\ cfg' = [cfg EXCEPT ![Worker] = [pcfg EXCEPT !.sample = Head(todo)]]
            /\ pc' = [pc EXCEPT ![Worker] = "enter"]
            /\ log' = [log EXCEPT ![Worker] = <<>>]
            /\ ret' = [ret EXCEPT ![Worker] = "none"]
            /\ exc' = [exc EXCEPT ![Worker] = "none"]
            /\ alone' = [alone EXCEPT ![Worker] = TRUE]
            /\ chain' = [chain EXCEPT ![Worker] = "none"]
            /\ UNCHANGED <<proj, pcfg, todo, pstatus, pret>>
            /\ UNCHANGED <<db, faulty, nSig, nDbErr, nOther, runs>>

\* an exception of deliver_sample is caught and counted as a False result
PSampleReturn_catch ==
    /\ ppc = "p_wait"
    /\ pc[Worker] = "done"
    /\ ppc' = "p_loop"
    /\ pstatus' = (pstatus /\ ret[Worker] = "True")
    /\ todo' = Tail(todo)
    /\ plog' = Append(plog, "ret:" \o (IF ret[Worker] = "True" THEN "True"
                                       ELSE "False"))
    /\ UNCHANGED <<proj, pcfg, pret>>
    /\ UNCHANGED svars

\* lines 503-504: deliver_sample returned st and status = (status and st);
\* an exception of deliver_sample is not caught and leaves deliver_project
PSampleReturn ==
    /\ ppc = "p_wait"
    /\ pc[Worker] = "done"
    /\ IF ret[Worker] \in {"True", "False"}
       THEN /\ ppc' = "p_loop"
            /\ pstatus' = (pstatus /\ ret[Worker] = "True")
            /\ todo' = Tail(todo)
            /\ plog' = Append(plog, "ret:" \o ret[Worker])
            /\ UNCHANGED <<proj, pcfg, pret>>
            /\ UNCHANGED svars
       ELSE PFinish(ret[Worker], <<>>)

\* lines 505-506 and deliver_misc_data (551-607): staging errors are
\* logged, a failed transfer raises DelivererRsyncError
PMisc ==
    /\ ppc = "p_misc"
    /\ \/ PGo("p_meta", <<"misc">>)
       \/ ~pcfg.stage_only /\ PFinish("DelivererRsyncError", <<"misc:fail">>)

\* lines 507-508 and aggregate_meta_info (299-378)
PMeta ==
    /\ ppc = "p_meta"
    /\ \/ PGo("p_all", <<>>)
       \/ faulty /\ PFinish("Exception", <<"meta:fail">>)

\* the project status is written whatever the status of the samples
PAllDelivered_always ==
    /\ ppc = "p_all"
    /\ PGo("p_report", <<>>)

\* lines 509-510 and the final "return status"
PAllDelivered ==
    /\ ppc = "p_all"
    /\ \E ok \in DbOutcomes(Worker) :
        IF ~ok THEN PDbErr
        ELSE IF all_samples_delivered(db)
             THEN PGo("p_report", <<>>)
             ELSE PFinish(Flag(pstatus), <<>>)

\* lines 514-532: an error of create_report is raised again, an error of
\* copy_report is swallowed
PReport ==
    /\ ppc = "p_report"
    /\ \/ PGo("p_write", <<>>)
       \/ faulty /\ PFinish("Exception", <<"report:fail">>)

\* lines 533-536
PWrite ==
    /\ ppc = "p_write"
    /\ \E ok \in DbOutcomes(Worker) :
        IF ~ok THEN PDbErr
        ELSE /\ proj' = update_project(proj, UpdatedStatus(pcfg))
             /\ plog' = Append(plog, "w:" \o UpdatedStatus(pcfg))
             /\ ppc' = "p_ack"
             /\ UNCHANGED <<pcfg, todo, pstatus, pret>>
             /\ UNCHANGED svars

\* lines 537-538: acknowledge_delivery, then "return status"
PAck ==
    /\ ppc = "p_ack"
    /\ \/ PFinish(Flag(pstatus), <<"ack">>)
       \/ faulty /\ PFinish("DelivererError", <<"ack:fail">>)

(***************************************************************************)
(* The provisioned deliverers: GrusProjectDeliverer (deliver_grus.py) and  *)
(* DDSProjectDeliverer (deliver_dds.py).                                   *)
(***************************************************************************)
\* get_delivery_status of the project (deliver_grus.py 83-100,
\* deliver_dds.py 63-79): the truth value of a field is "set and not empty"
prov_get_delivery_status(variant, entry) ==
    IF /\ entry.delivery_token # "UNSET"
       /\ entry.delivery_token \notin
             (IF variant = "grus" THEN {"NO-TOKEN"}
              ELSE {"NO-TOKEN", "not_under_delivery"})
    THEN "IN_PROGRESS"
    ELSE IF entry.delivery_status = "DELIVERED" THEN "DELIVERED"
    ELSE IF entry.delivery_projects \notin {"UNSET", "empty"} THEN "PARTIAL"
    ELSE "NOT_DELIVERED"

\* get_samples_from_charon (deliver_grus.py 457-471): the ids of the samples
\* whose stored delivery_status is the given one, in the order of the store
get_samples_from_charon(store, status) ==
    SelectSeq(PSampleOrder,
              LAMBDA s : s \in DOMAIN store /\ store[s].delivery_status = status)

\* a step of the operation that leaves the stores alone
GGo(npc, events) ==
    /\ gpc' = npc
    /\ glog' = glog \o events
    /\ UNCHANGED <<xvars, opc, gtoken, hard, gcfg, gtodo, gstaged, gval, gret, polls>>
    /\ UNCHANGED <<svars, pvars>>

\* the operation ends with outcome r: a return value, an exception that
\* leaves it, or "exit" for exit(1)
GFinish(r, events) ==
    /\ gpc' = "done"
    /\ gret' = r
    /\ glog' = glog \o events
    /\ UNCHANGED <<xvars, opc, gtoken, hard, gcfg, gtodo, gstaged, gval, polls>>
    /\ UNCHANGED <<svars, pvars>>

(***************************************************************************)
(* GrusProjectDeliverer.check_mover_delivery_status (deliver_grus.py       *)
(* 103-197).                                                               *)
(***************************************************************************)
\* polls that find the delivery within its maximal duration
MaxPolls == 2

\* first word of the output of "moverinfo -i <token>"
MoverAnswers == {"Delivered", "Accepted", "Failed", "InProgress", "Other"}

\* lines 106-109: the monitor is started; a wrong mover version ends it
MStart ==
    /\ gpc = "idle"
    /\ \E c \in GConfigs :
          c.variant = "grus" /\ ~c.force /\ ~c.hard_stage_only /\ gcfg' = c
    /\ \/ gpc' = "m_status" /\ gret' = gret
       \/ gpc' = "done" /\ gret' = "False"
    /\ UNCHANGED <<xvars, opc, gtoken, hard, gtodo, gstaged, gval, glog, polls>>
    /\ UNCHANGED <<svars, pvars>>

\* lines 110-120: only a project under delivery is monitored; its token is
\* read once, here
MStatus ==
    /\ gpc = "m_status"
    /\ IF prov_get_delivery_status(gcfg.variant, proj) # "IN_PROGRESS"
       THEN GFinish("None", <<>>)
       ELSE /\ gpc' = "m_poll"
            /\ gtoken' = proj.delivery_token
            /\ gval' = "IN_PROGRESS"
            /\ UNCHANGED <<xvars, opc, hard, gcfg, gtodo, gstaged, gret, glog, polls>>
            /\ UNCHANGED <<svars, pvars>>

\* the answer 'Delivered' is trusted without a look at the file system
MPoll_trusting ==
    /\ gpc = "m_poll"
    /\ \E answer \in MoverAnswers :
        /\ glog' = glog \o <<"poll:" \o answer>>
                        \o (IF answer = "Delivered"
                            THEN <<IF hard THEN "hard:yes" ELSE "hard:no">>
                            ELSE <<>>)
        /\ IF answer = "Delivered"
           THEN gpc' = "m_list" /\ gval' = "DELIVERED" /\ polls' = polls
           ELSE /\ polls < MaxPolls
                /\ gpc' = "m_poll" /\ gval' = gval /\ polls' = polls + 1
        /\ UNCHANGED <<xvars, opc, gtoken, hard, gcfg, gtodo, gstaged, gret>>
        /\ UNCHANGED <<svars, pvars>>

\* lines 124-168, one pass of the polling loop: the query fails (exit(1));
\* or it answers 'Delivered' and the hard-stage directory decides; or the
\* delivery has lasted too long; or the monitor sleeps and polls again.
\* Lines 149-154: a stored delivery_started is the value the store returns
\* (text), and its comparison with a datetime raises TypeError outside the
\* try block, unless the value happens to be comparable
MPoll ==
    /\ gpc = "m_poll"
    /\ \/ GFinish("exit", <<"poll:error">>)
       \/ /\ proj.delivery_started = "set"
          /\ \E answer \in MoverAnswers \ {"Delivered"} :
                GFinish("TypeError", <<"poll:" \o answer, "started:type">>)
       \/ \E answer \in MoverAnswers :
           \E late \in (IF polls < MaxPolls THEN BOOLEAN ELSE {TRUE}) :
            /\ glog' = glog \o <<"poll:" \o answer>>
                            \o (IF answer = "Delivered"
                                THEN <<IF hard THEN "hard:yes" ELSE "hard:no">>
                                ELSE IF late THEN <<"timeout">> ELSE <<>>)
            /\ IF answer = "Delivered"
               THEN /\ gpc' = "m_list"
                    /\ gval' = (IF hard THEN "FAILED" ELSE "DELIVERED")
                    /\ polls' = polls
               ELSE IF late
               THEN gpc' = "m_list" /\ gval' = "FAILED" /\ polls' = polls
               ELSE gpc' = "m_poll" /\ gval' = gval /\ polls' = polls + 1
            /\ UNCHANGED <<xvars, opc, gtoken, hard, gcfg, gtodo, gstaged, gret>>
            /\ UNCHANGED <<svars, pvars>>

\* the mover takes the data and removes the hard-stage directory
MoverTakes ==
    /\ gpc = "m_poll"
    /\ hard
    /\ hard' = FALSE
    /\ UNCHANGED <<xvars, opc, gtoken, gpc, gcfg, gtodo, gstaged, gval, gret, glog, polls>>
    /\ UNCHANGED <<svars, pvars>>

\* lines 171-173: the samples that are under delivery
MList ==
    /\ gpc = "m_list"
    /\ gpc' = "m_update"
    /\ gtodo' = get_samples_from_charon(db, "IN_PROGRESS")
    /\ UNCHANGED <<xvars, opc, gtoken, hard, gcfg, gstaged, gval, gret, glog, polls>>
    /\ UNCHANGED <<svars, pvars>>

\* lines 174-181: the next sample under delivery gets the status the
\* monitor converged to; after the last one the loop is left
MUpdate ==
    /\ gpc = "m_update"
    /\ IF gtodo = <<>>
       THEN GGo("m_token", <<>>)
       ELSE /\ db' = update_sample(db, Head(gtodo), gval)
            /\ gtodo' = Tail(gtodo)
            /\ glog' = Append(glog, "s:" \o gval)
            /\ UNCHANGED <<xvars, opc, gtoken, hard, gpc, gcfg, gstaged, gval, gret, polls>>
            /\ UNCHANGED <<sframe, pvars>>

\* lines 182-183 and delete_delivery_token_in_charon (deliver_grus.py 393-397)
MToken ==
    /\ gpc = "m_token"
    /\ proj' = [proj EXCEPT !.delivery_token = "NO-TOKEN"]
    /\ gpc' = "m_all"
    /\ glog' = Append(glog, "t:NO-TOKEN")
    /\ UNCHANGED <<xvars, opc, gtoken, hard, gcfg, gtodo, gstaged, gval, gret, polls>>
    /\ UNCHANGED <<svars, pframe>>

\* lines 184-197: when every sample that is not ABORTED is DELIVERED the
\* project gets the status the monitor converged to
MAll ==
    /\ gpc = "m_all"
    /\ gpc' = "done"
    /\ gret' = "None"
    /\ IF all_samples_delivered(db)
       THEN /\ proj' = update_project(proj, gval)
            /\ glog' = Append(glog, "w:" \o gval)
       ELSE UNCHANGED <<proj, glog>>
    /\ UNCHANGED <<xvars, opc, gtoken, hard, gcfg, gtodo, gstaged, gval, polls>>
    /\ UNCHANGED <<svars, pframe>>

(***************************************************************************)
(* GrusProjectDeliverer.deliver_project (deliver_grus.py 200-383) and      *)
(* DDSProjectDeliverer.deliver_project (deliver_dds.py 136-249).           *)
(***************************************************************************)
\* a step of deliver_project that only moves on
ProvGo(npc, events) ==
    /\ gpc' = npc
    /\ glog' = glog \o events
    /\ UNCHANGED <<xvars, opc, gtoken, hard, gcfg, gtodo, gstaged, gval, gret, polls>>
    /\ UNCHANGED <<svars, pvars>>

\* the operation is called.  GRUS (lines 206-219): a wrong mover version
\* returns False, an existing hard-stage directory raises
ProvStart ==
    /\ gpc = "idle"
    /\ \E c \in GConfigs :
        /\ c.hard_stage_only => c.variant = "grus"
        /\ gcfg' = c
        /\ \/ /\ c.variant = "grus" => ~hard
              /\ gpc' = "v_guard" /\ gret' = gret
           \/ /\ c.variant = "grus"
              /\ gpc' = "done" /\ gret' = "False"
           \/ /\ c.variant = "grus" /\ hard
              /\ gpc' = "done" /\ gret' = "DelivererInterruptedError"
    /\ UNCHANGED <<xvars, opc, gtoken, hard, gtodo, gstaged, gval, glog, polls>>
    /\ UNCHANGED <<svars, pvars>>

\* deliver_grus.py 222-238, deliver_dds.py 144-163: a delivered project is
\* left alone unless forced, a project under delivery is refused, a partly
\* delivered one needs the operator's word
ProvGuard ==
    /\ gpc = "v_guard"
    /\ LET st == prov_get_delivery_status(gcfg.variant, proj) IN
       IF st = "DELIVERED" /\ ~gcfg.force
       THEN GFinish("True", <<"skip">>)
       ELSE IF st = "IN_PROGRESS"
       THEN GFinish("DelivererInterruptedError", <<"busy">>)
       ELSE IF st = "PARTIAL"
       THEN \/ ProvGo("v_confirm", <<>>)
            \/ GFinish("False", <<"declined">>)
       ELSE ProvGo("v_confirm", <<>>)

\* deliver_grus.py 241-272, deliver_dds.py 166-177: the operator confirms
\* the sensitivity; GRUS then needs the e-mail and the id of the PI
ProvConfirm ==
    /\ gpc = "v_confirm"
    /\ \/ ProvGo("v_list", <<>>)
       \/ GFinish("False", <<"declined">>)
       \/ gcfg.variant = "grus" /\ GFinish("False", <<"pi:fail">>)

\* deliver_grus.py 276-310, deliver_dds.py 183-201: the staged samples are
\* listed and confirmed; GRUS then locks the delivery by creating the
\* hard-stage directory
ProvList ==
    /\ gpc = "v_list"
    /\ LET samples_to_deliver == get_samples_from_charon(db, "STAGED") IN
       IF samples_to_deliver = <<>>
       THEN GFinish("AssertionError", <<"nosamples">>)
       ELSE \/ GFinish("False", <<"declined">>)
            \/ /\ gtodo' = samples_to_deliver
               /\ gstaged' = <<>>
               /\ hard' = (IF gcfg.variant = "grus" THEN TRUE ELSE hard)
               /\ gpc' = (IF gcfg.variant = "grus" THEN "v_samples"
                          ELSE "v_create")
               /\ UNCHANGED <<xvars, opc, gtoken, gcfg, gval, gret, glog, polls>>
               /\ UNCHANGED <<svars, pvars>>

\* the sample loop.  GRUS (lines 316-330 and GrusSampleDeliverer
\* .deliver_sample 564-609): a staged sample is set IN_PROGRESS and hard
\* copied; when the copy fails it is set STAGED again and the process exits.
\* DDS (lines 210-224 and DDSSampleDeliverer.update_sample_status 517-533):
\* a staged sample is set IN_PROGRESS
ProvSample ==
    /\ gpc = "v_samples"
    /\ IF Len(gstaged) = Len(gtodo)
       THEN ProvGo(IF gcfg.variant = "grus" THEN "v_misc" ELSE "v_transfer",
                   <<>>)
       ELSE LET s == gtodo[Len(gstaged) + 1] IN
            IF get_delivery_status(db[s]) # "STAGED"
            THEN /\ gstaged' = Append(gstaged, s)
                 /\ UNCHANGED <<xvars, opc, gtoken, hard, gpc, gcfg, gtodo, gval, gret, glog, polls>>
                 /\ UNCHANGED <<svars, pvars>>
            ELSE \/ /\ db' = update_sample(db, s, "IN_PROGRESS")
                    /\ gstaged' = Append(gstaged, s)
                    /\ glog' = Append(glog, "s:IN_PROGRESS")
                    /\ UNCHANGED <<xvars, opc, gtoken, hard, gpc, gcfg, gtodo, gval, gret, polls>>
                    /\ UNCHANGED <<sframe, pvars>>
                 \/ /\ gcfg.variant = "grus"
                    /\ db' = update_sample(update_sample(db, s, "IN_PROGRESS"),
                                           s, "STAGED")
                    /\ gpc' = "done"
                    /\ gret' = "exit"
                    /\ glog' = glog \o <<"s:IN_PROGRESS", "copy:fail",
                                         "s:STAGED">>
                    /\ UNCHANGED <<xvars, opc, gtoken, hard, gcfg, gtodo, gstaged, gval, polls>>
                    /\ UNCHANGED <<sframe, pvars>>

\* deliver_grus.py 332-351: the other files are hard copied; a copy that
\* fails ends the process
ProvMisc ==
    /\ gpc = "v_misc"
    /\ \/ ProvGo("v_create", <<"misc">>)
       \/ GFinish("exit", <<"misc:fail">>)

\* the external delivery project is created.  GRUS (lines 354-361 and
\* _create_delivery_project 474-501): the handler of a failure formats its
\* message without an argument, which raises IndexError.  DDS (line 205
\* and _create_delivery_project 390-420): a failed command raises, an answer
\* without a project id gives no name
\* a failed provisioning is logged and the operation goes on
ProvCreate_swallowing ==
    /\ gpc = "v_create"
    /\ \/ ProvGo(IF gcfg.variant = "grus" THEN "v_transfer" ELSE "v_samples",
                 <<"provision:ok">>)
       \/ ProvGo(IF gcfg.variant = "grus" THEN "v_transfer" ELSE "v_samples",
                 <<"provision:fail">>)
       \/ /\ gcfg.variant = "dds"
          /\ ProvGo("v_samples", <<"provision:none">>)

ProvCreate ==
    /\ gpc = "v_create"
    /\ \/ ProvGo(IF gcfg.variant = "grus" THEN "v_transfer" ELSE "v_samples",
                 <<"provision:ok">>)
       \/ /\ gcfg.variant = "grus"
          /\ GFinish("IndexError", <<"provision:fail">>)
       \/ /\ gcfg.variant = "dds"
          /\ GFinish("CalledProcessError", <<"provision:fail">>)
       \/ /\ gcfg.variant = "dds"
          /\ ProvGo("v_samples", <<"provision:none">>)

\* deliver_dds.py 204-205 and 419-420: the name of the delivery project is
\* None when the answer of 'dds project create' held no project id
name_of_delivery ==
    IF \E i \in 1..Len(glog) : glog[i] = "provision:none" THEN "None"
    ELSE "named"

\* the bulk transfer.  GRUS (line 362 and do_delivery 430-454): with
\* hard_stage_only nothing is sent; a to_outbox that fails is logged and
\* then its unbound output is read, which raises UnboundLocalError.  DDS
\* (line 226 and upload_data 352-372): a failed command raises, an upload
\* that does not report completion gives None; without a project name the
\* command line holds None and subprocess.run raises TypeError before any
\* process is started
ProvTransfer ==
    /\ gpc = "v_transfer"
    /\ IF gcfg.variant = "grus"
       THEN IF gcfg.hard_stage_only
            THEN /\ gval' = "manually-set-up"
                 /\ gpc' = "v_save"
                 /\ glog' = Append(glog, "transfer:skipped")
                 /\ UNCHANGED <<xvars, opc, gtoken, hard, gcfg, gtodo, gstaged, gret, polls>>
                 /\ UNCHANGED <<svars, pvars>>
            ELSE \/ /\ \E out \in {"token", ""} : gval' = out
                    /\ gpc' = "v_save"
                    /\ glog' = Append(glog, "transfer:ok")
                    /\ UNCHANGED <<xvars, opc, gtoken, hard, gcfg, gtodo, gstaged, gret, polls>>
                    /\ UNCHANGED <<svars, pvars>>
                 \/ GFinish("UnboundLocalError", <<"transfer:fail">>)
       ELSE IF name_of_delivery = "None"
       THEN GFinish("TypeError", <<"transfer:unstarted">>)
       ELSE \/ /\ gval' = "uploaded"
               /\ gpc' = "v_save"
               /\ glog' = Append(glog, "transfer:ok")
               /\ UNCHANGED <<xvars, opc, gtoken, hard, gcfg, gtodo, gstaged, gret, polls>>
               /\ UNCHANGED <<svars, pvars>>
            \/ /\ gval' = "None"
               /\ gpc' = "v_save"
               /\ glog' = Append(glog, "transfer:incomplete")
               /\ UNCHANGED <<xvars, opc, gtoken, hard, gcfg, gtodo, gstaged, gret, polls>>
               /\ UNCHANGED <<svars, pvars>>
            \/ GFinish("CalledProcessError", <<"transfer:fail">>)

\* add_supr_name_delivery_in_charon (deliver_grus.py 411-427),
\* add_dds_name_delivery_in_charon (deliver_dds.py 311-329): the name joins
\* the stored list; a project without the field raises KeyError, which is
\* logged and swallowed
add_name_delivery_in_charon(entry) ==
    IF entry.delivery_projects = "UNSET" THEN entry
    ELSE [entry EXCEPT !.delivery_projects = "named"]

\* deliver_grus.py 364-371 and 380-383, deliver_dds.py 228-236 and 244-249:
\* a token that is not empty is stored in the project with the name of the
\* delivery project; without a token the operation returns False
ProvSave ==
    /\ gpc = "v_save"
    /\ IF gval \notin {"", "None"}
       THEN /\ proj' = add_name_delivery_in_charon(
                         [proj EXCEPT !.delivery_token = gval])
            /\ gpc' = "v_savesamples"
            /\ glog' = Append(glog, "t:" \o gval)
            /\ UNCHANGED <<xvars, opc, gtoken, hard, gcfg, gtodo, gstaged, gval, gret, polls>>
            /\ UNCHANGED <<svars, pframe>>
       ELSE GFinish("False", <<"notoken">>)

\* deliver_grus.py 372-379, deliver_dds.py 237-243: every listed sample
\* gets the token; then the operation returns its status, True
ProvSaveSample ==
    /\ gpc = "v_savesamples"
    /\ IF gtodo = <<>>
       THEN GFinish("True", <<>>)
       ELSE /\ db' = [db EXCEPT ![Head(gtodo)].delivery_token = gval]
            /\ gtodo' = Tail(gtodo)
            /\ UNCHANGED <<xvars, opc, gtoken, hard, gpc, gcfg, gstaged, gval, gret, glog, polls>>
            /\ UNCHANGED <<sframe, pvars>>

(***************************************************************************)
(* Other invocations on the same project, while a monitor is polling.      *)
(***************************************************************************)
\* another run of check_mover_delivery_status converges to T (deliver_grus.py
\* 171-197), after 'Delivered' with the hard-stage directory gone or with a
\* failure
OtherMonitor ==
    /\ gpc = "m_poll"
    /\ prov_get_delivery_status("grus", proj) = "IN_PROGRESS"
    /\ \E T \in {"DELIVERED", "FAILED"} :
        /\ T = "DELIVERED" => ~hard
        /\ LET store == [s \in DOMAIN db |->
                           IF db[s].delivery_status = "IN_PROGRESS"
                           THEN [db[s] EXCEPT !.delivery_status = T]
                           ELSE db[s]]
               cleared == [proj EXCEPT !.delivery_token = "NO-TOKEN"]
           IN /\ db' = store
              /\ proj' = IF all_samples_delivered(store)
                         THEN update_project(cleared, T) ELSE cleared
    /\ UNCHANGED <<gvars, xvars>>
    /\ UNCHANGED <<sframe, pframe>>

\* a later GrusProjectDeliverer.deliver_project of the staged samples runs to
\* its end (deliver_grus.py 216-383): no hard-stage directory, project not
\* under delivery, staged samples; it creates the directory, sets the samples
\* IN_PROGRESS and records its token in the project and the samples
FreshDelivery ==
    /\ gpc = "m_poll"
    /\ ~hard
    /\ prov_get_delivery_status("grus", proj) \in {"PARTIAL", "NOT_DELIVERED"}
    /\ get_samples_from_charon(db, "STAGED") # <<>>
    /\ hard' = TRUE
    /\ db' = [s \in DOMAIN db |->
                IF db[s].delivery_status = "STAGED"
                THEN [db[s] EXCEPT !.delivery_status = "IN_PROGRESS",
                                   !.delivery_token = "token2"]
                ELSE db[s]]
    /\ proj' = add_name_delivery_in_charon(
                  [proj EXCEPT !.delivery_token = "token2"])
    /\ UNCHANGED <<xvars, opc, gtoken, gpc, gcfg, gtodo, gstaged, gval, gret, glog, polls>>
    /\ UNCHANGED <<sframe, pframe>>

\* a second GrusProjectDeliverer.deliver_project on the same project and
\* hard-stage path reaches its checks (deliver_grus.py 216-305): an existing
\* hard-stage directory or a project under delivery refuses it, and it needs
\* staged samples
OtherCheck ==
    /\ opc = "idle"
    /\ opc' = IF hard
                 \/ prov_get_delivery_status("grus", proj) = "IN_PROGRESS"
                 \/ get_samples_from_charon(db, "STAGED") = <<>>
              THEN "refused" ELSE "passed"
    /\ UNCHANGED <<xvars, hard, gpc, gcfg, gtodo, gstaged, gval, gtoken, gret, glog,
                   polls>>
    /\ UNCHANGED <<svars, pvars>>

\* the second invocation creates the hard-stage directory, which
\* create_folder accepts to find in place, and starts to hard-stage its
\* samples (deliver_grus.py 310-325)
OtherLock ==
    /\ opc = "passed"
    /\ opc' = "staging"
    /\ hard' = TRUE
    /\ UNCHANGED <<xvars, gpc, gcfg, gtodo, gstaged, gval, gtoken, gret, glog,
                   polls>>
    /\ UNCHANGED <<svars, pvars>>

\* get_delivery_status of a GRUS or DDS project deliverer is called on the
\* stored entry (deliver_grus.py 83-100, deliver_dds.py 63-79)
StatusCall ==
    /\ gpc = "idle"
    /\ \E c \in GConfigs :
        /\ ~c.force /\ ~c.hard_stage_only
        /\ gcfg' = c
        /\ gret' = prov_get_delivery_status(c.variant, proj)
    /\ gpc' = "done"
    /\ UNCHANGED <<xvars, opc, gtoken, hard, gtodo, gstaged, gval, glog, polls>>
    /\ UNCHANGED <<svars, pvars>>

(***************************************************************************)
(* add_supr_name_delivery_in_charon / add_dds_name_delivery_in_charon of   *)
(* the project and of the sample deliverers: the entry is fetched, the     *)
(* name is appended to its delivery_projects list and the list is written  *)
(* back.  Fetch and update are two requests to the store, so other         *)
(* processes' requests come in between.                                    *)
(***************************************************************************)
Elems(seq) == {seq[i] : i \in 1..Len(seq)}

\* project_get / sample_get (deliver_grus.py 417-418, 625-626)
AddFetch(q) ==
    /\ apc[q] = "idle"
    /\ nAdd < MaxAdds
    /\ nAdd' = nAdd + 1
    /\ \E u \in {"project", "sample"}, n \in Names :
          acall' = [acall EXCEPT ![q] = [unit |-> u, name |-> n]]
    /\ aread' = [aread EXCEPT ![q] =
                    IF acall'[q].unit = "project" THEN plist ELSE slist]
    /\ apc' = [apc EXCEPT ![q] = "fetched"]
    /\ UNCHANGED <<plist, slist, added>>
    /\ UNCHANGED <<svars, pvars, gvars, fvars, evars>>

\* the test of line 419 looks the name up in the fetched list; the test of
\* line 627 looks it up in the fetched entry, a dict whose keys are the
\* field names, where a delivery name is never found
already_present(unit, name, fetched) ==
    IF unit = "project" THEN name \in Elems(fetched) ELSE FALSE

\* append and project_update / sample_update (419-424, 627-632)
AddUpdate(q) ==
    /\ apc[q] = "fetched"
    /\ LET u == acall[q].unit
           n == acall[q].name
           new == IF already_present(u, n, aread[q]) THEN aread[q]
                  ELSE Append(aread[q], n)
       IN /\ IF already_present(u, n, aread[q])
             THEN UNCHANGED <<plist, slist>>
             ELSE IF u = "project"
                  THEN plist' = new /\ UNCHANGED slist
                  ELSE slist' = new /\ UNCHANGED plist
          /\ added' = [added EXCEPT ![u] = @ \cup {n}]
    /\ apc' = [apc EXCEPT ![q] = "idle"]
    /\ UNCHANGED <<acall, aread, nAdd>>
    /\ UNCHANGED <<svars, pvars, gvars, fvars, evars>>

(***************************************************************************)
(* stage_delivery (deliver.py 189-222) consuming the generator             *)
(* gather_files (utils/filesystem.py 21-103).  The source tree holds       *)
(* a.txt, with no checksum file beside it; b.txt with its checksum file    *)
(* b.txt.md5 in the format of md5sum, as the one of the repository's test  *)
(* data; and c.txt, a broken symbolic link.  A text is written to a        *)
(* sidecar as the lines it makes up.                                       *)
(***************************************************************************)
\* iglob(sfile): the paths a source glob matches
GlobMatches(glob) ==
    CASE glob = "*"     -> <<"a.txt", "b.txt", "b.txt.md5", "c.txt">>
      [] glob = "a*"    -> <<"a.txt">>
      [] glob = "b*"    -> <<"b.txt", "b.txt.md5">>
      [] glob = "c*"    -> <<"c.txt">>
      [] glob = "*.md5" -> <<"b.txt.md5">>
      [] OTHER          -> <<>>

\* spath.endswith(".{}".format(hash_algorithm)), line 84
IsChecksumFile(f) == f = "b.txt.md5"

\* path.exists(spath), line 87
PathExists(f) == f # "c.txt"

\* a digest: its text up to the first newline, and whether a newline ends it
NoDigest == [null |-> TRUE, text |-> "", nl |-> FALSE]

\* _get_digest (36-52): None when digests are skipped, else the first line
\* of the checksum file as fh.next() returns it, newline included, else the
\* hash hashfile computes
get_digest(f, no_checksum, no_digest) ==
    IF no_checksum \/ no_digest THEN NoDigest
    ELSE IF f = "b.txt"
         THEN [null |-> FALSE, text |-> "9f1d  b.txt", nl |-> TRUE]
         ELSE [null |-> FALSE, text |-> "0c7a", nl |-> FALSE]

\* the string a digest stands for
DigestString(d) == IF d.nl THEN d.text \o "\n" ELSE d.text

\* os.path.relpath(dst, stagingpath) of dst = join(dfile, basename), line 213
relpath(pat, f) == pat.dest \o f

\* dh.write("{}  {}\n".format(digest, fpath)), line 216: the lines written
digest_lines(d, fpath) ==
    IF d.nl THEN <<d.text, "  " \o fpath>>
    ELSE <<d.text \o "  " \o fpath>>

\* os.path.basename(staging_digestfile()), lines 218, 232-240
DigestBasename == "S1.md5"

StageConfigs ==
    {c \in [patterns : UNION {[1..n -> Patterns] : n \in 1..MaxPatterns},
            no_checksum : BOOLEAN] :
        \* the options are taken up to what the run can tell apart
        \A i \in 1..Len(c.patterns) :
            c.no_checksum => ~c.patterns[i].no_digest}

StageEnd(r, events) ==
    /\ stpc' = "done"
    /\ stret' = r
    /\ stlog' = stlog \o events

\* lines 198-203: the sidecars are opened for writing
StageStart ==
    /\ stpc = "idle"
    /\ \E c \in StageConfigs : stcfg' = c
    /\ \/ /\ stpc' = "gather"
          /\ UNCHANGED <<stret, stlog>>
       \/ StageEnd("DelivererError", <<"raise:IOError">>)
    /\ fh' = <<>> /\ dh' = <<>>
    /\ UNCHANGED <<stpat, stfile, matches, yielded>>
    /\ UNCHANGED <<svars, pvars, gvars, avars, evars>>

\* one path of the current pattern's glob (filesystem.py 81-97) and, when a
\* tuple is yielded, the body of the loop of stage_delivery (204-216)
StageFile ==
    /\ stpc = "gather"
    /\ stpat <= Len(stcfg.patterns)
    /\ stfile <= Len(GlobMatches(stcfg.patterns[stpat].glob))
    /\ LET pat == stcfg.patterns[stpat]
           f   == GlobMatches(pat.glob)[stfile]
           d   == get_digest(f, stcfg.no_checksum, pat.no_digest)
       IN IF IsChecksumFile(f)
          THEN /\ stfile' = stfile + 1
               /\ UNCHANGED <<stpc, matches, yielded, fh, dh, stret, stlog>>
          ELSE /\ matches' = matches + 1
               /\ IF PathExists(f)
                  THEN /\ yielded' = Append(yielded,
                                [src |-> f, rel |-> relpath(pat, f), digest |-> d])
                       /\ \E linked \in BOOLEAN :
                            stlog' = IF linked THEN stlog
                                     ELSE Append(stlog, "warn:link")
                       /\ fh' = Append(fh, relpath(pat, f))
                       /\ dh' = IF d.null THEN dh
                                ELSE dh \o digest_lines(d, relpath(pat, f))
                       /\ stfile' = stfile + 1
                       /\ UNCHANGED <<stpc, stret>>
                  ELSE IF pat.required
                       THEN /\ StageEnd("DelivererError",
                                        <<"raise:FileNotFoundException">>)
                            /\ UNCHANGED <<stfile, yielded, fh, dh>>
                       ELSE /\ stlog' = Append(stlog, "warn:missing")
                            /\ stfile' = stfile + 1
                            /\ UNCHANGED <<stpc, yielded, fh, dh, stret>>
    /\ UNCHANGED <<stcfg, stpat>>
    /\ UNCHANGED <<svars, pvars, gvars, avars, evars>>

\* a pattern without matches is only ever warned about
StagePatternEnd_lenient ==
    /\ stpc = "gather"
    /\ stpat <= Len(stcfg.patterns)
    /\ stfile > Len(GlobMatches(stcfg.patterns[stpat].glob))
    /\ stlog' = IF matches = 0 THEN Append(stlog, "warn:nomatch") ELSE stlog
    /\ stpat' = stpat + 1 /\ stfile' = 1 /\ matches' = 0
    /\ UNCHANGED <<stpc, stret>>
    /\ UNCHANGED <<stcfg, yielded, fh, dh>>
    /\ UNCHANGED <<svars, pvars, gvars, avars, evars>>

\* the glob of the current pattern is exhausted (filesystem.py 98-103)
StagePatternEnd ==
    /\ stpc = "gather"
    /\ stpat <= Len(stcfg.patterns)
    /\ stfile > Len(GlobMatches(stcfg.patterns[stpat].glob))
    /\ IF matches = 0
       THEN IF stcfg.patterns[stpat].required
            THEN /\ StageEnd("DelivererError",
                             <<"raise:PatternNotMatchedException">>)
                 /\ UNCHANGED <<stpat, stfile, matches>>
            ELSE /\ stlog' = Append(stlog, "warn:nomatch")
                 /\ stpat' = stpat + 1 /\ stfile' = 1 /\ matches' = 0
                 /\ UNCHANGED <<stpc, stret>>
       ELSE /\ stpat' = stpat + 1 /\ stfile' = 1 /\ matches' = 0
            /\ UNCHANGED <<stpc, stret, stlog>>
    /\ UNCHANGED <<stcfg, yielded, fh, dh>>
    /\ UNCHANGED <<svars, pvars, gvars, avars, evars>>

\* gather_files is exhausted: lines 217-222
StageFinish ==
    /\ stpc = "gather"
    /\ stpat > Len(stcfg.patterns)
    /\ fh' = Append(fh, DigestBasename)
    /\ StageEnd("True", <<>>)
    /\ UNCHANGED <<stcfg, stpat, stfile, matches, yielded, dh>>
    /\ UNCHANGED <<svars, pvars, gvars, avars, evars>>

(***************************************************************************)
(* expand_path (deliver.py 263-297)                                        *)
(***************************************************************************)
\* getattr(self, str(expr[1:-1]).lower()), line 293, with the values of the
\* repository's test configuration: "absent" stands for AttributeError
Attr(state, toks) == [state |-> state, toks |-> toks]

getattr(inst, expr) ==
    CASE expr = "<ROOTDIR>"      -> Attr("str", <<"/r">>)
      [] expr = "<ANALYSISPATH>" -> Attr("str", <<"<ROOTDIR>", "/a">>)
      [] expr = "<STAGINGPATH>"  -> IF inst.stagingpath = "None"
                                    THEN Attr("None", <<>>)
                                    ELSE IF inst.stagingpath = "cyclic"
                                    THEN Attr("str", <<"<STAGINGPATH>", "/s">>)
                                    ELSE Attr("str", <<"<ROOTDIR>", "/s">>)
      [] expr = "<UPPNEXID>"     -> IF inst.uppnexid = "absent"
                                    THEN Attr("absent", <<>>)
                                    ELSE Attr("str", <<"u1">>)

\* re.search(r'(<[A-Z]+>)', path), line 285: the position of the leftmost
\* placeholder, 0 when there is none
search(toks) ==
    IF \E i \in 1..Len(toks) : toks[i] \in Placeholders
    THEN CHOOSE i \in 1..Len(toks) :
            /\ toks[i] \in Placeholders
            /\ \A j \in 1..(i - 1) : toks[j] \notin Placeholders
    ELSE 0

\* path.replace(expr, value), line 293: every occurrence is replaced
RECURSIVE replace(_, _, _)
replace(toks, expr, value) ==
    IF toks = <<>> THEN <<>>
    ELSE (IF Head(toks) = expr THEN value ELSE <<Head(toks)>>)
            \o replace(Tail(toks), expr, value)

\* lines 284-297, as the call at the given depth of the recursion of line
\* 292; str.replace raises TypeError when the value is no string, and the
\* interpreter raises RuntimeError ("maximum recursion depth exceeded") when
\* the calls nest deeper than its limit: no handler of expand_path catches it
RECURSIVE expand_path_at(_, _, _)
expand_path_at(inst, path, depth) ==
    IF depth > RecursionLimit THEN Raised("RuntimeError")
    ELSE IF path.null THEN Returned(path)
    ELSE LET m == search(path.toks)
         IN IF m = 0 THEN Returned(path)
            ELSE LET expr  == path.toks[m]
                     value == getattr(inst, expr)
                 IN IF value.state = "absent" THEN Raised("DelivererError")
                    ELSE IF value.state = "None" THEN Raised("TypeError")
                    ELSE expand_path_at(inst,
                            Str(replace(path.toks, expr, value.toks)),
                            depth + 1)

\* expand_path as it is called from outside
expand_path(inst, path) == expand_path_at(inst, path, 1)

\* a call of expand_path
ExpandCall ==
    /\ epc = "idle"
    /\ epc' = "done"
    /\ eres' = expand_path(einst, epath)
    /\ UNCHANGED <<einst, epath>>
    /\ UNCHANGED <<svars, pvars, gvars, avars, fvars>>

\* release_DDS_delivery_project up to the release command (deliver_dds.py
\* 86-111): the status test, the question, 'dds project status release'.
\* The convergence of lines 112-134 is the one of the monitor (MList,
\* MUpdate, MToken, MAll), with the status of line 107 or 110.
Release ==
    /\ gpc = "idle"
    /\ gcfg' = [variant |-> "dds", force |-> FALSE, hard_stage_only |-> FALSE]
    /\ IF prov_get_delivery_status("dds", proj) # "IN_PROGRESS"
       THEN /\ gpc' = "done" /\ gret' = "None" /\ gval' = gval
            /\ glog' = Append(glog, "skip")
       ELSE \/ /\ gpc' = "done" /\ gret' = "None" /\ gval' = gval
               /\ glog' = Append(glog, "declined")
            \/ /\ gpc' = "m_list" /\ gret' = gret /\ gval' = "DELIVERED"
               /\ glog' = Append(glog, "release:ok")
            \/ /\ gpc' = "done" /\ gret' = "CalledProcessError"
               /\ gval' = "FAILED"
               /\ glog' = Append(glog, "release:fail")
    /\ UNCHANGED <<xvars, opc, gtoken, hard, gtodo, gstaged, polls>>
    /\ UNCHANGED <<svars, pvars>>

(***************************************************************************)
(* GrusSampleDeliverer.deliver_sample (deliver_grus.py 564-609), called    *)
(* without an entry by deliver_project (line 319): the status is read from *)
(* the store.  The first event of the log is the status at invocation.     *)
(***************************************************************************)
\* an exception e is raised inside the try block of line 589
GsRaise(p, e, events) ==
    /\ pc' = [pc EXCEPT ![p] = "gs_handler"]
    /\ exc' = [exc EXCEPT ![p] = e]
    /\ log' = [log EXCEPT ![p] = @ \o events]
    /\ UNCHANGED <<db, cfg, ret, alone, chain, faulty, nOther, runs>>

\* lines 582-592: the paths are expanded, before and inside the try block
GsEnter(p) ==
    /\ pc[p] \in {"idle", "done"}
    /\ runs < MaxRuns
    /\ runs' = runs + 1
    /\ \E ok \in BOOLEAN :
          /\ pc' = [pc EXCEPT ![p] = IF ok THEN "gs_guard" ELSE "done"]
          /\ ret' = [ret EXCEPT ![p] = IF ok THEN "none" ELSE "DelivererError"]
          /\ log' = [log EXCEPT ![p] =
                        <<"began:" \o get_delivery_status(Entry(p))>>
                           \o (IF ok THEN <<>> ELSE <<"expand:fail">>)]
    /\ exc' = [exc EXCEPT ![p] = "none"]
    /\ UNCHANGED <<db, cfg, alone, chain, faulty, nSig, nDbErr, nOther>>
    /\ UNCHANGED <<pvars, gvars, xvars>>

\* lines 593-600: a sample that is not STAGED is left alone
GsGuard(p) ==
    /\ pc[p] = "gs_guard"
    /\ \E ok \in DbOutcomes(p) :
        IF ~ok
        THEN GsRaise(p, "DatabaseError", <<"dberr">>) /\ nDbErr' = nDbErr + 1
        ELSE /\ IF get_delivery_status(Entry(p)) # "STAGED"
                THEN /\ pc' = [pc EXCEPT ![p] = "done"]
                     /\ ret' = [ret EXCEPT ![p] = "False"]
                ELSE /\ pc' = [pc EXCEPT ![p] = "gs_write"]
                     /\ UNCHANGED ret
             /\ UNCHANGED <<db, cfg, exc, log, alone, chain, faulty, nDbErr,
                            nOther, runs>>
    /\ UNCHANGED nSig
    /\ UNCHANGED <<pvars, gvars, xvars>>

\* lines 602-603 and do_delivery (638-651): IN_PROGRESS is written and the
\* staged sample is hard copied
GsDeliver(p) ==
    /\ \/ /\ pc[p] = "gs_write"
          /\ \E ok \in DbOutcomes(p) :
               IF ~ok
               THEN GsRaise(p, "DatabaseError", <<"dberr">>)
                    /\ nDbErr' = nDbErr + 1
               ELSE /\ Wrote(p, "IN_PROGRESS")
                    /\ pc' = [pc EXCEPT ![p] = "gs_copy"]
                    /\ UNCHANGED <<cfg, exc, ret, chain, faulty, nDbErr,
                                   nOther, runs>>
       \/ /\ pc[p] = "gs_copy"
          /\ \/ /\ pc' = [pc EXCEPT ![p] = "done"]
                /\ ret' = [ret EXCEPT ![p] = "None"]
                /\ log' = [log EXCEPT ![p] = Append(@, "copy:ok")]
                /\ UNCHANGED <<db, cfg, exc, alone, chain, faulty, nOther, runs>>
             \/ GsRaise(p, "Exception", <<"copy:fail">>)
          /\ UNCHANGED nDbErr
    /\ UNCHANGED nSig
    /\ UNCHANGED <<pvars, gvars, xvars>>

\* a signal arrives inside the try block: DelivererInterruptedError is raised
\* where the process is (deliver.py 41-47)
GsInterrupt(p) ==
    /\ pc[p] \in {"gs_guard", "gs_write", "gs_copy"}
    /\ faulty /\ nSig < MaxSig
    /\ nSig' = nSig + 1
    /\ GsRaise(p, "DelivererInterruptedError", <<"sig">>)
    /\ UNCHANGED nDbErr
    /\ UNCHANGED <<pvars, gvars, xvars>>

\* lines 605-608: STAGED is written and the exception raised again; a
\* DatabaseError of that write replaces it
GsHandler(p) ==
    /\ pc[p] = "gs_handler"
    /\ \E ok \in DbOutcomes(p) :
        IF ok
        THEN /\ Wrote(p, "STAGED")
             /\ ret' = [ret EXCEPT ![p] = exc[p]]
             /\ UNCHANGED nDbErr
        ELSE /\ ret' = [ret EXCEPT ![p] = "DatabaseError"]
             /\ log' = [log EXCEPT ![p] = Append(@, "h:dberr")]
             /\ nDbErr' = nDbErr + 1
             /\ UNCHANGED <<db, alone>>
    /\ pc' = [pc EXCEPT ![p] = "done"]
    /\ exc' = [exc EXCEPT ![p] = "none"]
    /\ UNCHANGED <<cfg, chain, faulty, nSig, nOther, runs>>
    /\ UNCHANGED <<pvars, gvars, xvars>>

(***************************************************************************)
(* Specifications.                                                         *)
(***************************************************************************)
InitCommon ==
    /\ db \in [Samples -> PlainEntries]
    /\ pc = [p \in Procs |-> "idle"]
    /\ cfg = [p \in Procs |-> NoConfig]
    /\ exc = [p \in Procs |-> "none"]
    /\ ret = [p \in Procs |-> "none"]
    /\ log = [p \in Procs |-> <<>>]
    /\ alone = [p \in Procs |-> TRUE]
    /\ chain = [p \in Procs |-> "none"]
    /\ nSig = 0
    /\ nDbErr = 0
    /\ nOther = 0
    /\ runs = 0
    /\ proj = NoProject
    /\ ppc = "idle"
    /\ pcfg = NoConfig
    /\ todo = <<>>
    /\ pstatus = TRUE
    /\ pret = "none"
    /\ plog = <<>>
    /\ GIdle

Init == InitCommon /\ faulty = FALSE

InitFault == InitCommon /\ faulty = TRUE

\* the steps of deliver_sample after the call
Steps(p) ==
    \/ Enter(p)
    \/ GuardAnalysis(p)
    \/ GuardDelivered(p)
    \/ GuardInProgress(p)
    \/ GuardAborted(p)
    \/ AbortedCheck(p)
    \/ WriteAborted(p)
    \/ GuardFresh(p)
    \/ GuardFailed(p)
    \/ WriteInProgress(p)
    \/ Report(p)
    \/ Stage(p)
    \/ Transfer(p)
    \/ WriteDelivered(p)
    \/ Acknowledge(p)
    \/ WriteStaged(p)
    \/ AggregateMeta(p)
    \/ HandleException(p)

Deliver(p) == Start(p) \/ Steps(p)

\* processes that deliver single samples: no deliver_project is running
Next == (\E p \in Procs : Deliver(p)) /\ UNCHANGED <<pvars, gvars, xvars>>

NextFault ==
    /\ \/ \E p \in Procs : Deliver(p)
       \/ \E p \in Procs : Interrupt(p) \/ HandleInterrupted(p)
       \/ OtherUpdate
    /\ UNCHANGED <<pvars, gvars, xvars>>

Spec == Init /\ [][Next]_vars

SpecFault == InitFault /\ [][NextFault]_vars

\* a project of one or two samples and its deliverer
InitProject ==
    /\ \E S \in {{"S1"}, PSamples} : \E t \in {"UNSET", "token"} :
          db \in [S -> {e \in Entries : e.delivery_token = t}]
    /\ proj \in [delivery_status : {"UNSET", "STAGED", "DELIVERED"},
                 delivery_token  : {"UNSET"},
                 delivery_projects : {"UNSET"},
                 delivery_started : {"UNSET"}]
    /\ pc = [p \in Procs |-> "idle"]
    /\ cfg = [p \in Procs |-> NoConfig]
    /\ exc = [p \in Procs |-> "none"]
    /\ ret = [p \in Procs |-> "none"]
    /\ log = [p \in Procs |-> <<>>]
    /\ alone = [p \in Procs |-> TRUE]
    /\ chain = [p \in Procs |-> "none"]
    /\ faulty = FALSE
    /\ nSig = 0 /\ nDbErr = 0 /\ nOther = 0 /\ runs = 0
    /\ ppc = "idle"
    /\ pcfg = NoConfig
    /\ todo = <<>>
    /\ pstatus = TRUE
    /\ pret = "none"
    /\ plog = <<>>
    /\ GIdle

DeliverProject ==
    \/ PStart
    \/ PEnter
    \/ PGuardDelivered
    \/ PListSamples
    \/ PCallSample
    \/ PSampleReturn
    \/ PMisc
    \/ PMeta
    \/ PAllDelivered
    \/ PReport
    \/ PWrite
    \/ PAck

NextProject ==
    /\ \/ DeliverProject
       \/ Steps(Worker) /\ UNCHANGED pvars
    /\ UNCHANGED <<gvars, xvars>>

SpecProject == InitProject /\ [][NextProject]_vars

\* deliver_sample is called on the sample from the command line while a
\* deliver_project of the same project may be running (cli.py: "taca
\* deliver sample"); the process makes this one call
StandaloneStart(p) ==
    /\ p # Worker
    /\ pc[p] = "idle"
    /\ \E c \in Configs :
        /\ c.pathOK
        /\ ~c.ignore_analysis_status
        /\ cfg' = [cfg EXCEPT ![p] = c]
    /\ pc' = [pc EXCEPT ![p] = "enter"]
    /\ log' = [log EXCEPT ![p] = <<>>]
    /\ ret' = [ret EXCEPT ![p] = "none"]
    /\ exc' = [exc EXCEPT ![p] = "none"]
    /\ alone' = [alone EXCEPT ![p] = TRUE]
    /\ UNCHANGED <<db, chain, faulty, nSig, nDbErr, nOther, runs>>

\* a project of one sample whose stores agree: a DELIVERED project has its
\* sample DELIVERED, unless the sample is ABORTED
InitInterleave ==
    /\ InitProject
    /\ DOMAIN db = Samples
    /\ proj.delivery_status \in {"UNSET", "DELIVERED"}
    /\ proj.delivery_status = "DELIVERED" =>
          \A s \in DOMAIN db : \/ db[s].status = "ABORTED"
                                \/ db[s].delivery_status = "DELIVERED"

\* a deliver_project and a deliver_sample of another process, interleaved
NextInterleave ==
    /\ \/ DeliverProject
       \/ Steps(Worker) /\ UNCHANGED pvars
       \/ \E p \in Procs \ {Worker} :
             (StandaloneStart(p) \/ Steps(p)) /\ UNCHANGED pvars
    /\ UNCHANGED <<gvars, xvars>>

SpecInterleave == InitInterleave /\ [][NextInterleave]_vars

\* a project under a provisioned delivery, or not, and its monitor
InitMonitor ==
    /\ db \in [PSamples -> {e \in Entries :
                               /\ e.analysis_status = "ANALYZED"
                               /\ e.status # "FRESH"
                               /\ e.delivery_token = "token"}]
    /\ proj \in [delivery_status : {"UNSET", "DELIVERED"},
                 delivery_token  : {"NO-TOKEN", "token"},
                 delivery_projects : {"named"},
                 delivery_started : {"UNSET", "set"}]
    /\ pc = [p \in Procs |-> "idle"]
    /\ cfg = [p \in Procs |-> NoConfig]
    /\ exc = [p \in Procs |-> "none"]
    /\ ret = [p \in Procs |-> "none"]
    /\ log = [p \in Procs |-> <<>>]
    /\ alone = [p \in Procs |-> TRUE]
    /\ chain = [p \in Procs |-> "none"]
    /\ faulty = FALSE
    /\ nSig = 0 /\ nDbErr = 0 /\ nOther = 0 /\ runs = 0
    /\ ppc = "idle"
    /\ pcfg = NoConfig
    /\ todo = <<>>
    /\ pstatus = TRUE
    /\ pret = "none"
    /\ plog = <<>>
    /\ hard \in BOOLEAN
    /\ gpc = "idle"
    /\ gcfg = NoGConfig
    /\ gtodo = <<>>
    /\ gstaged = <<>>
    /\ gval = "none"
    /\ gtoken = "none"
    /\ gret = "none"
    /\ glog = <<>>
    /\ polls = 0
    /\ opc = "idle"
    /\ XIdle

NextMonitor ==
    \/ MStart
    \/ MStatus
    \/ MPoll
    \/ MoverTakes
    \/ MList
    \/ MUpdate
    \/ MToken
    \/ MAll

SpecMonitor == InitMonitor /\ [][NextMonitor]_vars

\* a project whose samples were staged, or not, and its GRUS or DDS deliverer
InitProvision ==
    /\ db \in [PSamples -> {e \in Entries :
                               /\ e.analysis_status = "ANALYZED"
                               /\ e.status # "FRESH"
                               /\ e.delivery_status \in
                                     {"NOT_DELIVERED", "STAGED", "DELIVERED"}
                               /\ e.delivery_token = "UNSET"}]
    /\ proj \in [delivery_status : {"UNSET", "DELIVERED"},
                 delivery_token  : {"UNSET", "NO-TOKEN", "token"},
                 delivery_projects : ProjectNames,
                 delivery_started : {"UNSET"}]
    /\ pc = [p \in Procs |-> "idle"]
    /\ cfg = [p \in Procs |-> NoConfig]
    /\ exc = [p \in Procs |-> "none"]
    /\ ret = [p \in Procs |-> "none"]
    /\ log = [p \in Procs |-> <<>>]
    /\ alone = [p \in Procs |-> TRUE]
    /\ chain = [p \in Procs |-> "none"]
    /\ faulty = FALSE
    /\ nSig = 0 /\ nDbErr = 0 /\ nOther = 0 /\ runs = 0
    /\ ppc = "idle"
    /\ pcfg = NoConfig
    /\ todo = <<>>
    /\ pstatus = TRUE
    /\ pret = "none"
    /\ plog = <<>>
    /\ hard \in BOOLEAN
    /\ gpc = "idle"
    /\ gcfg = NoGConfig
    /\ gtodo = <<>>
    /\ gstaged = <<>>
    /\ gval = "none"
    /\ gtoken = "none"
    /\ gret = "none"
    /\ glog = <<>>
    /\ polls = 0
    /\ opc = "idle"
    /\ XIdle

NextProvision ==
    \/ ProvStart
    \/ ProvGuard
    \/ ProvConfirm
    \/ ProvList
    \/ ProvSample
    \/ ProvMisc
    \/ ProvCreate
    \/ ProvTransfer
    \/ ProvSave
    \/ ProvSaveSample

SpecProvision == InitProvision /\ [][NextProvision]_vars

\* a project under delivery with samples still staged, its monitor, and the
\* other invocations on the project
InitStale ==
    /\ db \in [PSamples -> {e \in Entries :
                 /\ e.analysis_status = "ANALYZED"
                 /\ e.status = "STALE"
                 /\ \/ e.delivery_status = "IN_PROGRESS"
                       /\ e.delivery_token = "token"
                    \/ e.delivery_status = "STAGED"
                       /\ e.delivery_token = "UNSET"}]
    /\ proj \in [delivery_status : {"UNSET"},
                 delivery_token  : {"token"},
                 delivery_projects : {"named"},
                 delivery_started : {"UNSET"}]
    /\ pc = [p \in Procs |-> "idle"]
    /\ cfg = [p \in Procs |-> NoConfig]
    /\ exc = [p \in Procs |-> "none"]
    /\ ret = [p \in Procs |-> "none"]
    /\ log = [p \in Procs |-> <<>>]
    /\ alone = [p \in Procs |-> TRUE]
    /\ chain = [p \in Procs |-> "none"]
    /\ faulty = FALSE
    /\ nSig = 0 /\ nDbErr = 0 /\ nOther = 0 /\ runs = 0
    /\ ppc = "idle"
    /\ pcfg = NoConfig
    /\ todo = <<>>
    /\ pstatus = TRUE
    /\ pret = "none"
    /\ plog = <<>>
    /\ hard \in BOOLEAN
    /\ gpc = "idle"
    /\ gcfg = NoGConfig
    /\ gtodo = <<>>
    /\ gstaged = <<>>
    /\ gval = "none"
    /\ gtoken = "none"
    /\ gret = "none"
    /\ glog = <<>>
    /\ polls = 0
    /\ opc = "idle"
    /\ XIdle

NextStale ==
    \/ MStart
    \/ MStatus
    \/ MPoll
    \/ MoverTakes
    \/ MList
    \/ MUpdate
    \/ MToken
    \/ MAll
    \/ OtherMonitor
    \/ FreshDelivery

SpecStale == InitStale /\ [][NextStale]_vars

\* two deliver_project invocations on one project and hard-stage path
NextRace ==
    \/ NextProvision
    \/ OtherCheck
    \/ OtherLock

SpecRace == InitProvision /\ [][NextRace]_vars

\* any project entry, and a GRUS or DDS project deliverer asked for its status
InitStatus ==
    /\ db \in [PSamples -> {e \in PlainEntries :
                               /\ e.analysis_status = "ANALYZED"
                               /\ e.status = "STALE"
                               /\ e.delivery_status = "NOT_DELIVERED"}]
    /\ proj \in [delivery_status : ProjectStatuses,
                 delivery_token  : ProjectTokens,
                 delivery_projects : ProjectNames,
                 delivery_started : {"UNSET"}]
    /\ pc = [p \in Procs |-> "idle"]
    /\ cfg = [p \in Procs |-> NoConfig]
    /\ exc = [p \in Procs |-> "none"]
    /\ ret = [p \in Procs |-> "none"]
    /\ log = [p \in Procs |-> <<>>]
    /\ alone = [p \in Procs |-> TRUE]
    /\ chain = [p \in Procs |-> "none"]
    /\ faulty = FALSE
    /\ nSig = 0 /\ nDbErr = 0 /\ nOther = 0 /\ runs = 0
    /\ ppc = "idle"
    /\ pcfg = NoConfig
    /\ todo = <<>>
    /\ pstatus = TRUE
    /\ pret = "none"
    /\ plog = <<>>
    /\ GIdle

NextStatus == StatusCall

SpecStatus == InitStatus /\ [][NextStatus]_vars

\* nothing but the operation under study runs
Quiet ==
    /\ db = [s \in PSamples |-> [analysis_status |-> "ANALYZED",
                                 delivery_status |-> "NOT_DELIVERED",
                                 status |-> "STALE",
                                 delivery_token |-> "UNSET"]]
    /\ proj = NoProject
    /\ pc = [p \in Procs |-> "idle"]
    /\ cfg = [p \in Procs |-> NoConfig]
    /\ exc = [p \in Procs |-> "none"]
    /\ ret = [p \in Procs |-> "none"]
    /\ log = [p \in Procs |-> <<>>]
    /\ alone = [p \in Procs |-> TRUE]
    /\ chain = [p \in Procs |-> "none"]
    /\ faulty = FALSE
    /\ nSig = 0 /\ nDbErr = 0 /\ nOther = 0 /\ runs = 0
    /\ ppc = "idle"
    /\ pcfg = NoConfig
    /\ todo = <<>>
    /\ pstatus = TRUE
    /\ pret = "none"
    /\ plog = <<>>

\* the lists of both units start without duplicates (the project entry of
\* the test holds one name)
InitNames ==
    /\ Quiet
    /\ hard = FALSE
    /\ gpc = "idle"
    /\ gcfg = NoGConfig
    /\ gtodo = <<>>
    /\ gstaged = <<>>
    /\ gval = "none"
    /\ gtoken = "none"
    /\ gret = "none"
    /\ glog = <<>>
    /\ polls = 0
    /\ opc = "idle"
    /\ plist \in {<<>>, <<"delivery123">>}
    /\ slist \in {<<>>, <<"delivery123">>}
    /\ apc = [q \in Adders |-> "idle"]
    /\ acall = [q \in Adders |-> NoCall]
    /\ aread = [q \in Adders |-> <<>>]
    /\ added = [u \in {"project", "sample"} |->
                   IF u = "project" THEN Elems(plist) ELSE Elems(slist)]
    /\ nAdd = 0
    /\ FIdle
    /\ EIdle

NextNames == \E q \in Adders : AddFetch(q) \/ AddUpdate(q)

SpecNames == InitNames /\ [][NextNames]_vars

\* a deliverer with any files_to_deliver is staged
InitStage ==
    /\ Quiet
    /\ GIdle

NextStage == StageStart \/ StageFile \/ StagePatternEnd \/ StageFinish

SpecStage == InitStage /\ [][NextStage]_vars

\* any instance and any path of up to MaxPieces pieces, or None
InitExpand ==
    /\ Quiet
    /\ hard = FALSE
    /\ gpc = "idle"
    /\ gcfg = NoGConfig
    /\ gtodo = <<>>
    /\ gstaged = <<>>
    /\ gval = "none"
    /\ gtoken = "none"
    /\ gret = "none"
    /\ glog = <<>>
    /\ polls = 0
    /\ opc = "idle"
    /\ plist = <<>>
    /\ slist = <<>>
    /\ apc = [q \in Adders |-> "idle"]
    /\ acall = [q \in Adders |-> NoCall]
    /\ aread = [q \in Adders |-> <<>>]
    /\ added = [u \in {"project", "sample"} |-> {}]
    /\ nAdd = 0
    /\ FIdle
    /\ epc = "idle"
    /\ einst \in Instances
    /\ epath \in {NonePath} \cup
                 {Str(t) : t \in UNION {[1..n -> Placeholders \cup {"/x", "<projectid>"}] :
                                           n \in 0..MaxPieces}}
    /\ eres = Returned(NonePath)

NextExpand == ExpandCall

SpecExpand == InitExpand /\ [][NextExpand]_vars

\* a DDS project with or without a delivery under way is released
NextRelease == Release \/ MList \/ MUpdate \/ MToken \/ MAll

SpecRelease == InitMonitor /\ [][NextRelease]_vars

\* a GRUS sample deliverer runs on a sample with any entry, in an
\* environment with signals and database errors
NextGrusSample ==
    \/ GsEnter(Worker)
    \/ GsGuard(Worker)
    \/ GsDeliver(Worker)
    \/ GsInterrupt(Worker)
    \/ GsHandler(Worker)

SpecGrusSample == InitFault /\ [][NextGrusSample]_vars

TypeOK == /\ db \in [Samples -> Entries]
          /\ \A p \in Procs : cfg[p] \in Configs

(***************************************************************************)
(* Vocabulary of the claims.                                               *)
(***************************************************************************)
WriteEvents == {"w:NOT_DELIVERED", "w:IN_PROGRESS", "w:STAGED",
                "w:DELIVERED", "w:FAILED"}
StageEvents == {"stage:ok", "stage:fail"}
XferEvents  == {"xfer:ok", "xfer:fail"}

HasAny(l, E) == \E i \in 1..Len(l) : l[i] \in E

\* no status write, no staging, no transfer
NoEffects(l) == ~HasAny(l, WriteEvents \cup StageEvents \cup XferEvents)

WriteIdx(l) == {i \in 1..Len(l) : l[i] \in WriteEvents}

LastWrite(l) ==
    IF WriteIdx(l) = {} THEN "none"
    ELSE l[CHOOSE i \in WriteIdx(l) : \A j \in WriteIdx(l) : j <= i]

Done(p) == pc[p] = "done"

\* the positions up to and including the IN_PROGRESS guard
UpToInProgressGuard == {"enter", "g_analysis", "g_delivered", "g_inprogress"}

\* the positions of all guards
GuardPcs == {"enter", "g_analysis", "g_delivered", "g_inprogress",
             "g_aborted", "g_fresh", "g_failed"}

\* the positions between the IN_PROGRESS write and the return
Delivering == {"report", "stage", "transfer", "w_delivered", "ack",
               "w_staged", "meta"}

(***************************************************************************)
(* C1  A re-run of an unforced deliver_sample that returned True and left  *)
(* the sample DELIVERED (same deliverer, no write to the entry in          *)
(* between) returns True and performs no status write, no staging and no   *)
(* transfer.                                                               *)
(***************************************************************************)
C1_Idempotent ==
    \A p \in Procs :
        (Done(p) /\ chain[p] = "second")
            => (ret[p] = "True" /\ NoEffects(log[p]))

C1_Witness ==
    \E p \in Procs :
        /\ Done(p) /\ chain[p] = "second" /\ runs >= 2
        /\ ~cfg[p].stage_only
        /\ get_delivery_status(Entry(p)) = "DELIVERED"

(***************************************************************************)
(* C2  While the stored delivery_status of the sample is IN_PROGRESS, no   *)
(* step of an unforced invocation that has not yet passed the IN_PROGRESS  *)
(* guard gets past that guard: the step leaves the store alone, has staged *)
(* and transferred nothing, and either stays before the guard or returns   *)
(* False.                                                                  *)
(***************************************************************************)
C2_Busy ==
    [][\A p \in Procs :
          ( /\ pc[p] \in UpToInProgressGuard
            /\ ~cfg[p].force
            /\ get_delivery_status(Entry(p)) = "IN_PROGRESS"
            /\ pc'[p] # pc[p] )
          => ( /\ db' = db
               /\ NoEffects(log'[p])
               /\ \/ pc'[p] \in UpToInProgressGuard
                  \/ pc'[p] = "done" /\ ret'[p] = "False" )]_vars

\* the busy return itself: an analysed, not FRESH sample that is IN_PROGRESS
C2_Witness ==
    \E p \in Procs :
        /\ Done(p) /\ ret[p] = "False" /\ ~cfg[p].force
        /\ get_analysis_status(Entry(p)) = "ANALYZED"
        /\ get_sample_status(Entry(p)) = "STALE"
        /\ get_delivery_status(Entry(p)) = "IN_PROGRESS"
        /\ \A q \in Procs : ~Running(q)

(***************************************************************************)
(* C3  Two concurrent unforced invocations for the same sample are never   *)
(* both past the guards (between the IN_PROGRESS write and the return).    *)
(***************************************************************************)
C3_MutualExclusion ==
    \A p, q \in Procs :
        ( /\ p # q
          /\ cfg[p].sample = cfg[q].sample
          /\ ~cfg[p].force /\ ~cfg[q].force )
        => ~(pc[p] \in Delivering /\ pc[q] \in Delivering)

C5_DeliveredOrder ==
    \A p \in Procs : \A i \in 1..Len(log[p]) :
        log[p][i] = "w:DELIVERED" =>
            /\ \E a, b, c \in 1..Len(log[p]) :
                  /\ a < b /\ b < c /\ c < i
                  /\ log[p][a] = "w:IN_PROGRESS"
                  /\ log[p][b] = "stage:ok"
                  /\ log[p][c] = "xfer:ok"
            /\ \A j \in 1..i : log[p][j] # "xfer:fail"

C5_Witness ==
    \E p \in Procs : Done(p) /\ HasAny(log[p], {"w:DELIVERED"})

(***************************************************************************)
(* C6  An invocation whose transfer failed (do_delivery raised or returned *)
(* False) ends with FAILED as its last status write, propagates the        *)
(* delivery error and never writes DELIVERED.                              *)
(***************************************************************************)
C6_TransferFailure ==
    \A p \in Procs :
        (Done(p) /\ HasAny(log[p], {"xfer:fail"}))
            => /\ LastWrite(log[p]) = "w:FAILED"
               /\ ret[p] \in {"DelivererError", "DelivererRsyncError"}
               /\ ~HasAny(log[p], {"w:DELIVERED"})

C6_Witness ==
    \E p \in Procs :
        /\ Done(p) /\ HasAny(log[p], {"xfer:fail"})
        /\ get_delivery_status(Entry(p)) = "FAILED"

(***************************************************************************)
(* C7  An unforced invocation never returns from a guard while the entry   *)
(* is ANALYZED, FAILED and neither ABORTED nor FRESH; and an invocation    *)
(* that found the sample FAILED (line 710) has written IN_PROGRESS and     *)
(* staged when it ends, has transferred if staging succeeded (unless       *)
(* stage_only), and ends with DELIVERED as its last write and returns True *)
(* if the transfer succeeded.                                              *)
(***************************************************************************)
C7_RetryStep ==
    \A p \in Procs :
        ( /\ pc[p] \in GuardPcs
          /\ ~cfg[p].force
          /\ get_analysis_status(Entry(p)) = "ANALYZED"
          /\ get_delivery_status(Entry(p)) = "FAILED"
          /\ get_sample_status(Entry(p)) \notin {"ABORTED", "FRESH"}
          /\ pc'[p] # pc[p] )
        => pc'[p] \in GuardPcs \cup {"w_inprogress"}

C7_RetryResult ==
    \A p \in Procs :
        (Done(p) /\ ~cfg[p].force /\ HasAny(log[p], {"retry"}))
        => /\ HasAny(log[p], {"w:IN_PROGRESS"})
           /\ HasAny(log[p], StageEvents)
           /\ (HasAny(log[p], {"stage:ok"}) /\ ~cfg[p].stage_only)
                 => HasAny(log[p], XferEvents)
           /\ HasAny(log[p], {"xfer:ok"})
                 => (LastWrite(log[p]) = "w:DELIVERED" /\ ret[p] = "True")

\* C7: a FAILED sample is retried - no guard turns the unforced invocation
\* away (C7_RetryStep), and the retry writes IN_PROGRESS, stages, transfers
\* and ends DELIVERED if the transfer succeeds (C7_RetryResult).
C7_Retry == [][C7_RetryStep]_vars /\ []C7_RetryResult

\* a failed attempt of one process, then the successful retry of the other
C7_Witness ==
    \E p, q \in Procs :
        /\ p # q
        /\ Done(q) /\ LastWrite(log[q]) = "w:FAILED"
        /\ Done(p) /\ ~cfg[p].force /\ HasAny(log[p], {"retry"})
        /\ ret[p] = "True" /\ LastWrite(log[p]) = "w:DELIVERED"
        /\ get_delivery_status(Entry(p)) = "DELIVERED"

(***************************************************************************)
(* C8  An invocation that received a signal after its IN_PROGRESS write,   *)
(* outside its exception handlers, and met no database error, ends with    *)
(* NOT_DELIVERED as its last status write and propagates                   *)
(* DelivererInterruptedError.                                              *)
(***************************************************************************)
C8_InterruptResets ==
    \A p \in Procs :
        ( /\ Done(p)
          /\ \E i, j \in 1..Len(log[p]) :
                i < j /\ log[p][i] = "w:IN_PROGRESS" /\ log[p][j] = "sig"
          /\ ~HasAny(log[p], {"dberr", "h:dberr", "h:sig"}) )
        => /\ LastWrite(log[p]) = "w:NOT_DELIVERED"
           /\ ret[p] = "DelivererInterruptedError"

(***************************************************************************)
(* C9  An invocation for a sample whose status is ABORTED returns True and *)
(* never invokes the transfer backend.                                     *)
(***************************************************************************)
C9_AbortedSucceeds ==
    \A p \in Procs :
        (Done(p) /\ get_sample_status(Entry(p)) = "ABORTED")
            => (ret[p] = "True" /\ ~HasAny(log[p], XferEvents))

(***************************************************************************)
(* C10  The edges of the delivery_status of a sample.                      *)
(***************************************************************************)
\* p, unforced and not interrupted, makes this step and changes the status
\* of its non-ABORTED sample from a to b
Changes(p, a, b) ==
    /\ log'[p] # log[p]
    /\ ~cfg[p].force
    /\ ~HasAny(log'[p], {"sig", "h:sig"})
    /\ get_sample_status(Entry(p)) # "ABORTED"
    /\ a = get_delivery_status(db[cfg[p].sample])
    /\ b = get_delivery_status(db'[cfg[p].sample])
    /\ a # b

LifecycleEdges ==
    {<<"NOT_DELIVERED", "IN_PROGRESS">>, <<"FAILED", "IN_PROGRESS">>,
     <<"IN_PROGRESS", "STAGED">>, <<"IN_PROGRESS", "DELIVERED">>,
     <<"IN_PROGRESS", "FAILED">>}

Statuses == DeliveryStatuses \ {"UNSET"}

C11_StageOnly ==
    \A p \in Procs :
        cfg[p].stage_only =>
            /\ ~HasAny(log[p], XferEvents \cup {"w:DELIVERED", "ack", "ack:fail"})
            /\ (Done(p) /\ HasAny(log[p], {"stage:ok"}))
                  => (LastWrite(log[p]) = "w:STAGED" /\ ret[p] = "True")

C11_Witness ==
    \E p \in Procs :
        /\ Done(p) /\ cfg[p].stage_only /\ ret[p] = "True"
        /\ log[p] = <<"w:IN_PROGRESS", "stage:ok", "w:STAGED">>
        /\ get_delivery_status(Entry(p)) = "STAGED"

(***************************************************************************)
(* Vocabulary of the project claims.                                       *)
(***************************************************************************)
PDone == ppc = "done"

\* number of the samples deliver_project has called deliver_sample for
Attempted == Cardinality({i \in 1..Len(plog) : plog[i] = "sample"})

ProjectWrites == {"w:STAGED", "w:DELIVERED"}

\* every sample that is not ABORTED has the delivery_status v
AllNonAborted(v) ==
    \A s \in DOMAIN db :
        db[s].status # "ABORTED" => db[s].delivery_status = v

(***************************************************************************)
(* C12  A step of an unforced deliver_project that finds the project       *)
(* DELIVERED leaves both stores alone, has called deliver_sample for no    *)
(* sample and delivered no miscellaneous files, and either stays before    *)
(* the guard or returns True.                                              *)
(***************************************************************************)
C12_ProjectShortCircuit ==
    [][( /\ ppc \in {"p_enter", "p_guard"}
         /\ ~pcfg.force
         /\ get_delivery_status(proj) = "DELIVERED"
         /\ ppc' # ppc )
       => ( /\ db' = db /\ proj' = proj
            /\ plog' = <<>>
            /\ pc'[Worker] = "idle"
            /\ \/ ppc' = "p_guard"
               \/ ppc' = "done" /\ pret' = "True" )]_vars

\* the short-circuit with a sample that was not delivered
C12_Witness ==
    /\ PDone /\ pret = "True" /\ ~pcfg.force
    /\ proj.delivery_status = "DELIVERED"
    /\ plog = <<>>
    /\ \E s \in DOMAIN db :
          db[s].status = "STALE" /\ db[s].analysis_status = "ANALYZED"
          /\ db[s].delivery_status = "NOT_DELIVERED"

C14_ProjectWriteStep ==
    proj' # proj =>
        /\ ppc = "p_write"
        /\ AllNonAborted("DELIVERED")
        /\ proj'.delivery_token = proj.delivery_token
        /\ proj'.delivery_status = (IF pcfg.stage_only THEN "STAGED"
                                    ELSE "DELIVERED")

C14_ProjectWriteResult ==
    (PDone /\ ~pcfg.stage_only /\ HasAny(plog, {"misc"}))
        => /\ HasAny(plog, {"w:DELIVERED"}) <=> AllNonAborted("DELIVERED")
           /\ ~HasAny(plog, ProjectWrites \ {"w:DELIVERED"})
           /\ HasAny(plog, {"w:DELIVERED"})
                 => proj.delivery_status = "DELIVERED"

C14_WitnessUntouched ==
    /\ PDone /\ ~pcfg.stage_only /\ HasAny(plog, {"misc"})
    /\ ~AllNonAborted("DELIVERED")
    /\ ~HasAny(plog, ProjectWrites)

(***************************************************************************)
(* C15  When a stage-only deliver_project has ended with True after the    *)
(* miscellaneous files were staged, and every sample that is not ABORTED   *)
(* is STAGED (there is at least one), the project was written STAGED.      *)
(***************************************************************************)
C15_ProjectStaged ==
    ( /\ PDone /\ pcfg.stage_only /\ pret = "True"
      /\ HasAny(plog, {"misc"})
      /\ AllNonAborted("STAGED")
      /\ \E s \in DOMAIN db : db[s].status # "ABORTED" )
    => (HasAny(plog, {"w:STAGED"}) /\ proj.delivery_status = "STAGED")

(***************************************************************************)
(* C16  Every step of a deliver_sample for sample S leaves the project     *)
(* entry and the entries of all other samples as they are, and changes at  *)
(* most the delivery_status of the entry of S: analysis_status, status and *)
(* delivery_token of S stay as they are.                                   *)
(***************************************************************************)
C16_OwnStatusOnly ==
    [][\A p \in Procs :
          (Running(p) /\ (pc'[p] # pc[p] \/ log'[p] # log[p]))
          => /\ proj' = proj
             /\ DOMAIN db' = DOMAIN db
             /\ \A s \in DOMAIN db :
                   /\ s # cfg[p].sample => db'[s] = db[s]
                   /\ db'[s].analysis_status = db[s].analysis_status
                   /\ db'[s].status = db[s].status
                   /\ db'[s].delivery_token = db[s].delivery_token]_vars

\* both samples of a project with a recorded token were delivered, the
\* analysis_status, status and token of each entry are still there
C16_Witness ==
    /\ PDone /\ Attempted = 2
    /\ HasAny(log[Worker], {"w:DELIVERED"})
    /\ \A s \in DOMAIN db :
          /\ db[s].delivery_status = "DELIVERED"
          /\ db[s].analysis_status = "ANALYZED"
          /\ db[s].status = "STALE"
          /\ db[s].delivery_token = "token"
    /\ ~HasAny(plog, {"ret:False"})
    /\ pcfg.force

(***************************************************************************)
(* Vocabulary of the claims about the provisioned deliverers.              *)
(***************************************************************************)
GDone == gpc = "done"

\* the monitor converged and went through the update of the stores
Converged == GDone /\ HasAny(glog, {"t:NO-TOKEN"})

(***************************************************************************)
(* C18  The monitor changes a sample entry only from IN_PROGRESS to the    *)
(* status T it converged to; and when it has converged, no sample is       *)
(* IN_PROGRESS any more, the token of the project is NO-TOKEN, and the     *)
(* project was written DELIVERED if and only if every sample that is not   *)
(* ABORTED is DELIVERED, and was written no other status.                  *)
(***************************************************************************)
C18_SampleStep ==
    db' # db =>
        \E s \in DOMAIN db :
            /\ db[s].delivery_status = "IN_PROGRESS"
            /\ gval \in {"DELIVERED", "FAILED"}
            /\ db' = [db EXCEPT ![s].delivery_status = gval]

C18_Result ==
    Converged =>
        /\ \A s \in DOMAIN db : db[s].delivery_status # "IN_PROGRESS"
        /\ proj.delivery_token = "NO-TOKEN"
        /\ HasAny(glog, {"w:DELIVERED"}) <=> AllNonAborted("DELIVERED")
        /\ ~HasAny(glog, {"w:FAILED"})
        /\ HasAny(glog, {"w:DELIVERED"}) => proj.delivery_status = "DELIVERED"

\* C18: on convergence to T every IN_PROGRESS sample gets T, the token is
\* reset, and the project is set DELIVERED exactly when every non-ABORTED
\* sample is DELIVERED and is otherwise left untouched.
C18_Converge == [][C18_SampleStep]_vars /\ []C18_Result

(***************************************************************************)
(* C19  The monitor converges to DELIVERED only after the answer           *)
(* 'Delivered' with the hard-stage directory gone; after the answer        *)
(* 'Delivered' with the directory still there it converges to FAILED and   *)
(* writes DELIVERED to no entry.                                           *)
(***************************************************************************)
C19_HardStageCheck ==
    /\ gval = "DELIVERED" => HasAny(glog, {"hard:no"})
    /\ HasAny(glog, {"hard:yes"})
          => /\ gval = "FAILED"
             /\ ~HasAny(glog, {"s:DELIVERED", "w:DELIVERED"})

\* reported completion with the directory still there: the sample fails
C19_Witness ==
    /\ Converged /\ hard
    /\ HasAny(glog, {"poll:Delivered"}) /\ HasAny(glog, {"hard:yes"})
    /\ HasAny(glog, {"s:FAILED"})
    /\ db["S1"].delivery_status = "FAILED"

(***************************************************************************)
(* C20  A poll that is answered 'Failed' ends the polling: the monitor     *)
(* converges to FAILED at that poll.                                       *)
(***************************************************************************)
C20_FailedStopsPolling ==
    [][( /\ gpc = "m_poll"
         /\ Len(glog') > Len(glog)
         /\ glog'[Len(glog) + 1] = "poll:Failed" )
       => (gpc' = "m_list" /\ gval' = "FAILED")]_vars

\* the project entry holds a token that marks it as under delivery
TokenRecorded ==
    prov_get_delivery_status(gcfg.variant, proj) = "IN_PROGRESS"

\* the transfer was started after a successful provisioning and failed
TransferFailed ==
    /\ HasAny(glog, {"provision:ok"})
    /\ HasAny(glog, {"transfer:fail", "transfer:incomplete"})

(***************************************************************************)
(* C17  In the GRUS and DDS deliver_project, when the external delivery    *)
(* project was created and the bulk transfer then failed, the operation    *)
(* ends with a delivery token recorded in the project, so that its         *)
(* get_delivery_status answers IN_PROGRESS, and with the listed samples    *)
(* IN_PROGRESS; and the operation never ends with a sample it set          *)
(* IN_PROGRESS and no recorded token.                                      *)
(***************************************************************************)
C17_TokenAfterFailedTransfer ==
    GDone =>
       /\ TransferFailed =>
             /\ TokenRecorded
             /\ \A i \in 1..Len(gstaged) :
                   db[gstaged[i]].delivery_status = "IN_PROGRESS"
       /\ (\E i \in 1..Len(gstaged) :
              db[gstaged[i]].delivery_status = "IN_PROGRESS") => TokenRecorded

\* the answers of the polls the monitor made
PollEvents == {"poll:" \o a : a \in MoverAnswers}

(***************************************************************************)
(* C21  A monitor that polled and never got the answer 'Delivered' (and    *)
(* whose status query never failed) has, when it ended, left the polling   *)
(* loop through the maximal duration of a delivery and forced the unit to  *)
(* FAILED: the timeout was taken, the monitor converged to FAILED and no   *)
(* sample is left IN_PROGRESS.                                             *)
(***************************************************************************)
C21_TimeoutForcesFailed ==
    ( /\ GDone
      /\ HasAny(glog, PollEvents)
      /\ ~HasAny(glog, {"poll:Delivered", "poll:error"}) )
    => /\ HasAny(glog, {"timeout"})
       /\ gval = "FAILED"
       /\ Converged
       /\ \A s \in DOMAIN db : db[s].delivery_status # "IN_PROGRESS"

(***************************************************************************)
(* C22  A step of the monitor that changes a sample entry or the delivery  *)
(* token of the project is taken only while the token stored for the       *)
(* project is the token the monitor has been polling.                      *)
(***************************************************************************)
C22_StaleTokenGuard ==
    [][( /\ glog' # glog
         /\ db' # db \/ proj'.delivery_token # proj.delivery_token )
       => proj.delivery_token = gtoken]_vars

\* this GRUS deliver_project created the hard-stage directory and went on
HardStaging ==
    /\ gcfg.variant = "grus"
    /\ gpc \in {"v_samples", "v_misc", "v_create", "v_transfer", "v_save",
                "v_savesamples"}

\* a GRUS deliver_project called while the hard-stage directory exists ends
\* at once, with an error, and changes neither the stores nor the directory
C23_RefusedStep ==
    ( /\ gpc = "idle" /\ gpc' # "idle"
      /\ gcfg'.variant = "grus"
      /\ hard )
    => /\ gpc' = "done"
       /\ gret' \in {"DelivererInterruptedError", "False"}
       /\ UNCHANGED <<db, proj, hard>>

(***************************************************************************)
(* C23  A GRUS deliver_project that finds the hard-stage directory in      *)
(* place ends with an error before any change of the stores or of the      *)
(* directory, and two deliver_project invocations on one hard-stage path   *)
(* are never both past that check and hard-staging their samples.          *)
(***************************************************************************)
C23_HardStageExclusive ==
    /\ [][C23_RefusedStep]_vars
    /\ [](~(HardStaging /\ opc = "staging"))

(***************************************************************************)
(* C24  get_delivery_status of a GRUS or DDS project deliverer answers     *)
(* IN_PROGRESS when the entry holds a delivery token other than the        *)
(* sentinels 'NO-TOKEN' and 'not_under_delivery'; otherwise DELIVERED when *)
(* delivery_status is DELIVERED; otherwise PARTIAL when delivery_projects  *)
(* is not empty; otherwise NOT_DELIVERED.                                  *)
(***************************************************************************)
C24_ProjectStatus ==
    (GDone /\ glog = <<>> /\ gret \in DeliveryStatuses \cup {"PARTIAL"}) =>
       gret = IF proj.delivery_token
                    \notin {"UNSET", "NO-TOKEN", "not_under_delivery"}
              THEN "IN_PROGRESS"
              ELSE IF proj.delivery_status = "DELIVERED" THEN "DELIVERED"
              ELSE IF proj.delivery_projects = "named" THEN "PARTIAL"
              ELSE "NOT_DELIVERED"

(***************************************************************************)
(* C25  Whatever additions of delivery names were made to the project      *)
(* entry and to a sample entry, repeated or concurrent, the stored         *)
(* delivery_projects list of each holds no name twice and holds every name *)
(* whose addition was completed.                                           *)
(***************************************************************************)
NoDuplicate(seq) == \A i, j \in 1..Len(seq) : seq[i] = seq[j] => i = j

AddsDone == \A q \in Adders : apc[q] = "idle"

C25_AppendOnlyDeduplicated ==
    AddsDone =>
       /\ NoDuplicate(plist) /\ added["project"] \subseteq Elems(plist)
       /\ NoDuplicate(slist) /\ added["sample"] \subseteq Elems(slist)

\* the same, of the project entry and of an update made while the stored
\* list is still the fetched one
C25_ProjectSequential ==
    [][\A q \in Adders :
          ( /\ apc[q] = "fetched" /\ apc'[q] = "idle"
            /\ acall[q].unit = "project" /\ aread[q] = plist
            /\ NoDuplicate(plist) /\ added["project"] \subseteq Elems(plist) )
          => NoDuplicate(plist') /\ added'["project"] \subseteq Elems(plist')]_vars

(***************************************************************************)
(* C26  Once a database call of deliver_sample has raised DatabaseError,   *)
(* the invocation makes no further status write, attempted or completed,   *)
(* and it ends by raising DatabaseError.                                   *)
(***************************************************************************)
C26_NoWriteAfterDatabaseError ==
    \A p \in Procs :
       /\ \A i, j \in 1..Len(log[p]) :
             (i < j /\ log[p][i] = "dberr")
                => log[p][j] \notin WriteEvents \cup {"h:dberr"}
       /\ (Done(p) /\ HasAny(log[p], {"dberr"})) => ret[p] = "DatabaseError"

(***************************************************************************)
(* C27  A deliver_sample invocation whose delivery path template does not  *)
(* expand ends by raising DelivererError and has made no status write.     *)
(***************************************************************************)
C27_ExpandFailureWritesNothing ==
    \A p \in Procs :
        (Done(p) /\ HasAny(log[p], {"expand:fail"}))
            => /\ ~HasAny(log[p], WriteEvents)
               /\ ~HasAny(log[p], {"h:dberr", "h:sig"})
                     => ret[p] = "DelivererError"

(***************************************************************************)
(* C28  After a successful stage_delivery, for every tuple (src, dst,      *)
(* digest) gather_files yielded, the path of dst relative to the staging   *)
(* path is exactly one line of the file list and, when digest is not None, *)
(* 'digest  relpath' is exactly one line of the digest file; and the last  *)
(* line of the file list is the basename of the digest file.               *)
(***************************************************************************)
Count(seq, x) == Cardinality({i \in 1..Len(seq) : seq[i] = x})

Staged == stpc = "done" /\ stret = "True"

C28_SidecarsRoundTrip ==
    Staged =>
       /\ \A i \in 1..Len(yielded) :
             /\ Count(fh, yielded[i].rel) = 1
             /\ ~yielded[i].digest.null =>
                   Count(dh, DigestString(yielded[i].digest) \o "  "
                                \o yielded[i].rel) = 1
       /\ fh[Len(fh)] = DigestBasename

\* what the sidecars do hold: as many lines as tuples for every destination,
\* the digest lines of the digests that do not end in a newline, and the
\* basename of the digest file last and only there
C28_SidecarsHold ==
    Staged =>
       /\ \A i \in 1..Len(yielded) :
             /\ Count(fh, yielded[i].rel)
                  = Cardinality({j \in 1..Len(yielded) :
                                    yielded[j].rel = yielded[i].rel})
             /\ (~yielded[i].digest.null /\ ~yielded[i].digest.nl) =>
                   Count(dh, yielded[i].digest.text \o "  " \o yielded[i].rel)
                     = Cardinality({j \in 1..Len(yielded) :
                                       /\ yielded[j].rel = yielded[i].rel
                                       /\ yielded[j].digest = yielded[i].digest})
       /\ fh[Len(fh)] = DigestBasename
       /\ Count(fh, DigestBasename) = 1
       /\ Len(fh) = Len(yielded) + 1

\* the source files a glob matches: its paths but the checksum files
SourcePaths(glob) == {f \in Elems(GlobMatches(glob)) : ~IsChecksumFile(f)}

\* gather_files is at the end of a pattern whose glob matched no source file
AtEmptyPatternEnd ==
    /\ stpc = "gather"
    /\ stpat <= Len(stcfg.patterns)
    /\ stfile > Len(GlobMatches(stcfg.patterns[stpat].glob))
    /\ SourcePaths(stcfg.patterns[stpat].glob) = {}

\* the tuples the patterns from index i on are to yield
OwedFrom(i) ==
    {[src |-> f, rel |-> relpath(stcfg.patterns[j], f),
      digest |-> get_digest(f, stcfg.no_checksum, stcfg.patterns[j].no_digest)] :
        <<j, f>> \in {jf \in (i..Len(stcfg.patterns)) \X {"a.txt", "b.txt", "c.txt"} :
                         /\ jf[2] \in SourcePaths(stcfg.patterns[jf[1]].glob)
                         /\ PathExists(jf[2])}}

(***************************************************************************)
(* C29  At the end of a pattern whose glob matched no source file,         *)
(* gather_files raises PatternNotMatchedException when the pattern is      *)
(* required, and otherwise logs a warning and goes on with the next        *)
(* pattern; a run that ends well has yielded every existing source file of *)
(* every pattern, and a run none of whose patterns is required is failed   *)
(* by no pattern.                                                          *)
(***************************************************************************)
C29_EmptyPattern ==
    /\ [][AtEmptyPatternEnd =>
            IF stcfg.patterns[stpat].required
            THEN /\ stpc' = "done" /\ stret' = "DelivererError"
                 /\ stlog' = Append(stlog, "raise:PatternNotMatchedException")
                 /\ yielded' = yielded
            ELSE /\ stpc' = "gather" /\ stpat' = stpat + 1 /\ stfile' = 1
                 /\ stlog' = Append(stlog, "warn:nomatch")
                 /\ yielded' = yielded]_vars
    /\ [](Staged => Elems(yielded) = OwedFrom(1))
    /\ []((stpc = "done" /\ \A i \in 1..Len(stcfg.patterns) :
                               ~stcfg.patterns[i].required)
             => (stret = "True" \/ HasAny(stlog, {"raise:IOError"})))

\* a run whose first pattern matched nothing and was not required went on
\* and yielded the files of the second pattern
C29_Witness ==
    /\ Staged
    /\ Len(stcfg.patterns) = 2
    /\ SourcePaths(stcfg.patterns[1].glob) = {}
    /\ ~stcfg.patterns[1].required
    /\ stlog[1] = "warn:nomatch"
    /\ Len(yielded) > 0

\* the string a template stands for once every placeholder, and every
\* placeholder of the values put in, is replaced by its attribute's value
RECURSIVE Substituted(_, _)
Substituted(inst, toks) ==
    IF toks = <<>> THEN <<>>
    ELSE (IF Head(toks) \in Placeholders
          THEN Substituted(inst, getattr(inst, Head(toks)).toks)
          ELSE <<Head(toks)>>)
            \o Substituted(inst, Tail(toks))

HasPlaceholder(toks) == \E i \in 1..Len(toks) : toks[i] \in Placeholders

\* a placeholder of the template names an attribute in the given state
NamesAttr(inst, toks, state) ==
    \E i \in 1..Len(toks) :
        /\ toks[i] \in Placeholders
        /\ getattr(inst, toks[i]).state = state

Expanded == epc = "done"

(***************************************************************************)
(* C30  expand_path returns None for None and a path without placeholder   *)
(* unchanged; a value it returns holds no placeholder and is the template  *)
(* with every placeholder <NAME> replaced by the attribute name; and it    *)
(* raises DelivererError when a placeholder of the template names an       *)
(* attribute the instance does not have.                                   *)
(***************************************************************************)
C30_ExpandPath ==
    Expanded =>
       /\ epath.null => eres = Returned(epath)
       /\ (~epath.null /\ ~HasPlaceholder(epath.toks)) => eres = Returned(epath)
       /\ (~epath.null /\ eres.exc = "none") =>
             /\ ~HasPlaceholder(eres.val.toks)
             /\ eres.val = Str(Substituted(einst, epath.toks))
       /\ (~epath.null /\ NamesAttr(einst, epath.toks, "absent"))
             => eres.exc = "DelivererError"

\* the same, with the last part only of templates no placeholder of which
\* names an attribute whose value is None, on instances no attribute of
\* which names itself
C30_ExpandHolds ==
    (Expanded /\ einst.stagingpath # "cyclic") =>
       /\ epath.null => eres = Returned(epath)
       /\ (~epath.null /\ ~HasPlaceholder(epath.toks)) => eres = Returned(epath)
       /\ (~epath.null /\ eres.exc = "none") =>
             /\ ~HasPlaceholder(eres.val.toks)
             /\ eres.val = Str(Substituted(einst, epath.toks))
       /\ ( /\ ~epath.null
            /\ NamesAttr(einst, epath.toks, "absent")
            /\ ~NamesAttr(einst, epath.toks, "None") )
             => eres.exc = "DelivererError"
       /\ eres.exc \in {"none", "DelivererError", "TypeError"}


(***************************************************************************)
(* C31  The NOT_DELIVERED write of the ABORTED guard of deliver_sample is  *)
(* made only on an entry that has a delivery_status: an entry without the  *)
(* field is not written and the field stays unset.                         *)
(***************************************************************************)
C31_AbortedLeavesUnset ==
    [][\A p \in Procs :
          ( /\ pc[p] = "w_aborted"
            /\ Entry(p).delivery_status = "UNSET"
            /\ log'[p] = log[p] \o <<"w:NOT_DELIVERED">> )
          => db'[cfg[p].sample].delivery_status = "UNSET"]_vars


(***************************************************************************)
(* C32  A finished deliver_sample with force wrote IN_PROGRESS and staged  *)
(* the sample, and transferred it when the staging succeeded and it is not *)
(* stage-only, whatever the analysis status, the delivery status and the   *)
(* FRESH mark of the entry, unless the sample is ABORTED: then it returned *)
(* True and neither staged nor transferred.                                *)
(***************************************************************************)
C32_ForceBypass ==
    \A p \in Procs :
        (Done(p) /\ cfg[p].force) =>
            IF Entry(p).status = "ABORTED"
            THEN /\ ret[p] = "True"
                 /\ ~HasAny(log[p], StageEvents \cup XferEvents
                                       \cup {"w:IN_PROGRESS"})
            ELSE /\ HasAny(log[p], {"w:IN_PROGRESS"})
                 /\ HasAny(log[p], StageEvents)
                 /\ (HasAny(log[p], {"stage:ok"}) /\ ~cfg[p].stage_only)
                       => HasAny(log[p], XferEvents)

\* a forced delivery of a FRESH sample that is not analyzed was transferred
C32_Witness ==
    \E p \in Procs :
        /\ Done(p) /\ cfg[p].force
        /\ Entry(p).status = "FRESH"
        /\ Entry(p).analysis_status = "TO_ANALYZE"
        /\ HasAny(log[p], {"xfer:ok"})


(***************************************************************************)
(* C33  When the release command of release_DDS_delivery_project has       *)
(* failed, the finished operation has updated every sample that was        *)
(* IN_PROGRESS to FAILED and has cleared the delivery token of the         *)
(* project, as it does with DELIVERED when the command succeeds.           *)
(***************************************************************************)
C33_ReleaseFailureConverges ==
    (GDone /\ HasAny(glog, {"release:fail"})) =>
        /\ \A s \in DOMAIN db : db[s].delivery_status # "IN_PROGRESS"
        /\ HasAny(glog, {"t:NO-TOKEN"})
        /\ proj.delivery_token = "NO-TOKEN"

\* the convergence after a release command that succeeded
C33_ReleaseSuccessConverges ==
    (GDone /\ HasAny(glog, {"release:ok"})) =>
        /\ \A s \in DOMAIN db : db[s].delivery_status # "IN_PROGRESS"
        /\ HasAny(glog, {"t:NO-TOKEN"})
        /\ ~HasAny(glog, {"s:FAILED", "w:FAILED"})
        /\ proj.delivery_token = "NO-TOKEN"


(***************************************************************************)
(* C34  Every status write of GrusSampleDeliverer.deliver_sample is the    *)
(* write of IN_PROGRESS to a STAGED entry or, after a failure, the write   *)
(* of STAGED to a sample that was STAGED when the invocation began; an     *)
(* invocation that began on a sample that was not STAGED writes no status  *)
(* and copies nothing.                                                     *)
(***************************************************************************)
BeganStaged(p) == Len(log[p]) > 0 /\ log[p][1] = "began:STAGED"

C34_GrusSampleWrites ==
    /\ [][\A p \in Procs :
            (log'[p] # log[p] /\ db' # db) =>
               \/ /\ log'[p] = Append(log[p], "w:IN_PROGRESS")
                  /\ get_delivery_status(Entry(p)) = "STAGED"
               \/ /\ log'[p] = Append(log[p], "w:STAGED")
                  /\ HasAny(log[p], {"dberr", "sig", "copy:fail"})
                  /\ BeganStaged(p)]_vars
    /\ [](\A p \in Procs :
            (Len(log[p]) > 0 /\ ~BeganStaged(p)) =>
               ~HasAny(log[p], WriteEvents \cup {"copy:ok", "copy:fail"}))


(***************************************************************************)
(* C35  A deliver_sample invocation without force that found the sample    *)
(* DELIVERED (nobody else wrote the entry since it began, and it has not   *)
(* written yet) makes no status write that changes DELIVERED, whatever     *)
(* signal or error occurs.                                                 *)
(***************************************************************************)
C35_DeliveredUntouched ==
    [][\A p \in Procs :
          ( /\ Running(p) /\ ~cfg[p].force /\ alone[p]
            /\ ~HasAny(log[p], WriteEvents)
            /\ Entry(p).delivery_status = "DELIVERED"
            /\ log'[p] # log[p] )
          => db'[cfg[p].sample].delivery_status = "DELIVERED"]_vars


(***************************************************************************)
(* C36  After a deliver_sample invocation has written DELIVERED it makes   *)
(* no further status write, whatever fails or arrives afterwards.          *)
(***************************************************************************)
C36_DeliveredIsFinal ==
    \A p \in Procs :
        \A i, j \in 1..Len(log[p]) :
            (i < j /\ log[p][i] = "w:DELIVERED")
                => log[p][j] \notin WriteEvents \cup {"h:dberr"}


(***************************************************************************)
(* C37  In the cluster deliver_project variants the bulk transfer is       *)
(* started only after the provisioning succeeded and gave an identifier:   *)
(* when the provisioning fails or gives no identifier, no transfer is      *)
(* started and no delivery token is recorded.                              *)
(***************************************************************************)
\* a transfer command that was started, whatever its outcome
StartedTransfers == {"transfer:ok", "transfer:fail", "transfer:incomplete"}

\* a delivery token stored by the operation
TokenEvents == {"t:uploaded", "t:token", "t:manually-set-up"}

C37_TransferAfterProvisioning ==
    /\ \A i \in 1..Len(glog) :
          glog[i] \in StartedTransfers
             => \E j \in 1..(i - 1) : glog[j] = "provision:ok"
    /\ HasAny(glog, {"provision:fail", "provision:none"})
          => /\ ~HasAny(glog, StartedTransfers \cup TokenEvents)
             /\ gpc = "done" => proj.delivery_token \notin
                                   {"uploaded", "manually-set-up"}

\* a DDS provisioning gave no identifier, the samples were updated and the
\* upload ended before any command was started
C37_Witness ==
    /\ gpc = "done"
    /\ gcfg.variant = "dds"
    /\ HasAny(glog, {"provision:none"})
    /\ HasAny(glog, {"transfer:unstarted"})
    /\ gret = "TypeError"


(***************************************************************************)
(* C38  Under any interleaving of deliver_sample and deliver_project       *)
(* invocations without force on the basic path (not stage-only), in every  *)
(* state of the stores a project whose delivery_status is DELIVERED has    *)
(* every sample that is not ABORTED DELIVERED.                             *)
(***************************************************************************)
\* no invocation, past or running, was forced or stage-only: each process
\* is called once, so its configuration is the one of its only invocation
AllPlain ==
    /\ ~pcfg.force /\ ~pcfg.stage_only
    /\ \A p \in Procs : ~cfg[p].force /\ ~cfg[p].stage_only

C38_DeliveredProjectSamples ==
    (AllPlain /\ proj.delivery_status = "DELIVERED")
        => AllNonAborted("DELIVERED")


(***************************************************************************)
(* C39  Whenever the basic deliver_project marks the project DELIVERED (or *)
(* STAGED) it returns True; it returns False only in runs that leave the   *)
(* status of the project untouched.                                        *)
(***************************************************************************)
C39_MarkedReturnsTrue ==
    ppc = "done" =>
        /\ HasAny(plog, ProjectWrites) => pret = "True"
        /\ pret = "False" => ~HasAny(plog, ProjectWrites)


(***************************************************************************)
(* C40  expand_path terminates for every template and every assignment of  *)
(* the instance attributes, also when a value put in for a placeholder     *)
(* holds placeholders: the recursion always reaches a result without       *)
(* placeholder or an error of its own, and never runs until the            *)
(* interpreter stops it.                                                   *)
(***************************************************************************)
C40_ExpandTerminates ==
    Expanded => eres.exc # "RuntimeError"

====
